---- MODULE Spec2Model ----
(***************************************************************************)
(* QuickServe: the localStorage-backed collection store (StorageManager),  *)
(* the booking operations that write to it (BookingView, the booking OTP   *)
(* methods of AuthenticationService, the booking poll of QuickServeApp),   *)
(* the session and the users, the providers view (filter, rank, paginate,  *)
(* distances), the retrying request of ApiService, the login OTP, the role *)
(* upgrade, and the real-time services of QuickServeApp.                   *)
(*                                                                         *)
(* Conventions.  A JavaScript object is a record; a field that is absent   *)
(* is absent from the record's DOMAIN.  Date.now() and                     *)
(* new Date().toISOString() read the clock `now`.  An id                   *)
(* 'id_' + Date.now() + '_' + <random suffix> is the number                *)
(* now * |Rand| + suffix.    The strings "undefined", "NaN" and "null"      *)
(* stand for the JavaScript values of those names.  A text (a name, a      *)
(* service id, a search query) is the sequence of its characters; '' is    *)
(* <<>>.  A provider's rating and the rating filter are in tenths of a     *)
(* star, and a relevance score is in fortieths of a point, so that the     *)
(* arithmetic of calculateRelevanceScore is exact.                         *)
(***************************************************************************)
EXTENDS Integers, Sequences, FiniteSets, TLC

VARIABLES
    blob,      \* localStorage['quickserve_data']
    medium,    \* how localStorage behaves: "ok", "full" (setItem throws), "blocked" (every access throws)
    now,       \* the clock
    bookings,  \* BookingView.bookings, the view's in-memory copy
    last,      \* the last operation: its name, arguments and return value, and what it met
    view,      \* the ProvidersView: its fields and what providersContainer shows
    userLocation, \* what LocationService.getCurrentLocationContext() returns
    api,       \* the ApiService and the request it is carrying out
    auth,      \* the AuthenticationService: its OTP fields
    app        \* the QuickServeApp: its sockets, intervals and pending timers

vars == <<blob, medium, now, bookings, last, view, userLocation, api, auth, app>>

\* ---------------------------------------------------------------- bounds

MaxClock == 2
MaxItems == 2
NumBookings == 1
MaxNotifications == 1

\* the 5 minutes an OTP is valid, in ticks of the clock
OtpWindow == 1

\* the WebSockets the app creates in one behaviour
MaxSockets == 3

\* the random suffixes of an id
Rand == {0, 1}
Mediums == {"ok", "full", "blocked"}

\* ----------------------------------------------- the providers view (new)

providersPerPage == 12

\* this.currentFilters as the constructor and clearAllFilters set it
defaultFilters ==
    [service |-> <<>>, location |-> <<>>, rating |-> 0, priceRange |-> <<0, 5000>>,
     availability |-> "", verification |-> "", experience |-> 0, distance |-> 50,
     sortBy |-> "relevance"]

\* new ProvidersView(app), nothing shown yet; searchTimer is the pending
\* timeout of debouncedSearch
newProvidersView(perPage) ==
    [providers |-> <<>>, filteredProviders |-> <<>>, currentFilters |-> defaultFilters,
     searchQuery |-> <<>>, currentPage |-> 1, providersPerPage |-> perPage,
     searchTimer |-> FALSE, container |-> [cards |-> <<>>, pages |-> {}]]

\* --------------------------------------------------- the services (new)

retryAttempts == 3
timeoutDuration == 10000
MAX_ATTEMPTS == 3

\* no request under way
noRequest ==
    [phase |-> "none", config |-> <<>>, attempt |-> 0, fetches |-> 0, timer |-> FALSE,
     status |-> 0, lastError |-> <<>>, delays |-> <<>>, attempts |-> <<>>,
     result |-> <<>>]

\* new ApiService(): baseURL is null when the configured base URL is empty,
\* authToken is the token found in storage or null
newApiService(baseURL, authToken) ==
    [baseURL |-> baseURL, authToken |-> authToken, request |-> noRequest]

\* new AuthenticationService(): "null" and 0 stand for a null OTP and expiry
newAuthenticationService ==
    [currentOTP |-> "null", otpExpiry |-> 0, verificationAttempts |-> 0]

\* new QuickServeApp() before startRealTimeServices: sockets are the
\* WebSockets created so far (their readyState), the last one is this.socket;
\* reconnects are the pending 5 s timers of onclose handlers
newQuickServeApp ==
    [realTimeServices |-> {}, sockets |-> <<>>, reconnects |-> 0, destroyed |-> FALSE]

\* ------------------------------------------------------- the store (pure)

CollectionNames ==
    {"users", "providers", "customers", "bookings", "reviews", "services",
     "products", "otherWorkers", "transactions", "notifications", "cart"}

Missing == [kind |-> "missing"]
Corrupt == [kind |-> "corrupt"]
NullData == [kind |-> "null"]

defaultSchema(t) ==
    [kind |-> "doc",
     version |-> "1.0.0",
     lastUpdated |-> t,
     collections |-> [n \in CollectionNames |-> <<>>],
     settings |-> [currentUser |-> 0, language |-> "en", location |-> "null", theme |-> "light"],
     cache |-> [pinCodes |-> <<>>, searchHistory |-> <<>>]]

\* {...a, ...b}
Merge(a, b) ==
    [f \in (DOMAIN a) \cup (DOMAIN b) |-> IF f \in DOMAIN b THEN b[f] ELSE a[f]]

RatingFields == {"rating", "qualityRating", "punctualityRating", "behaviorRating"}
OptionalTextFields == {"comment"}

\* JSON.stringify of a flat object: a field holding undefined is left out,
\* NaN is written as null.
stringifyFlat(o) ==
    [f \in {g \in DOMAIN o : ~(g \in OptionalTextFields /\ o[g] = "undefined")} |->
        IF f \in RatingFields /\ o[f] = "NaN" THEN "null" ELSE o[f]]

\* JSON.stringify of an entity (its review sub-record is an object too).
stringifyEntity(e) ==
    LET flat == stringifyFlat(e)
    IN  [f \in DOMAIN flat |-> IF f = "review" THEN stringifyFlat(flat[f]) ELSE flat[f]]

\* JSON.stringify of the document; JSON.parse reads back what was written.
stringify(data) ==
    IF "collections" \in DOMAIN data
    THEN [data EXCEPT !.collections =
            [n \in DOMAIN data.collections |->
                [i \in 1 .. Len(data.collections[n]) |-> stringifyEntity(data.collections[n][i])]]]
    ELSE data

getData(b, m) ==
    IF m = "blocked" THEN NullData
    ELSE IF b.kind = "doc" THEN b
    ELSE NullData

\* the result of setData: the blob afterwards and the value returned
setData(b, m, t, data) ==
    IF m = "ok"
    THEN [blob |-> stringify(Merge(data, [lastUpdated |-> t])), ok |-> TRUE]
    ELSE [blob |-> b, ok |-> FALSE]

initializeStorage(b, m, t) ==
    IF getData(b, m).kind = "null"
    THEN setData(b, m, t, defaultSchema(t)).blob
    ELSE b

getCollection(b, m, name) ==
    LET data == getData(b, m)
    IN  IF data.kind = "doc" /\ "collections" \in DOMAIN data /\ name \in DOMAIN data.collections
        THEN data.collections[name]
        ELSE <<>>

setCollection(b, m, t, name, collectionData) ==
    LET data == getData(b, m)
    IN  IF data.kind = "doc" /\ "collections" \in DOMAIN data
        THEN setData(b, m, t,
                 [data EXCEPT !.collections =
                     [n \in (DOMAIN data.collections) \cup {name} |->
                         IF n = name THEN collectionData ELSE data.collections[n]]])
        ELSE [blob |-> b, ok |-> FALSE]

generateId(t, r) == t * Cardinality(Rand) + r

\* the result of addToCollection: the blob afterwards and the item returned
addToCollection(b, m, t, r, name, item) ==
    LET collection == getCollection(b, m, name)
        newItem == Merge(item, [id |-> generateId(t, r), createdAt |-> t, updatedAt |-> t])
    IN  [blob |-> setCollection(b, m, t, name, Append(collection, newItem)).blob,
         ret |-> newItem]

\* collection.findIndex(item => item.id === itemId); 0 stands for -1
findIndex(collection, itemId) ==
    LET hits == {i \in 1 .. Len(collection) :
                    "id" \in DOMAIN collection[i] /\ collection[i].id = itemId}
    IN  IF hits = {} THEN 0 ELSE CHOOSE i \in hits : \A j \in hits : i <= j

\* updateInCollection with the write-back moved out of the `if`: the
\* collection is persisted again when no item matches
updateInCollection_alwaysWrites(b, m, t, name, itemId, updates) ==
    LET collection == getCollection(b, m, name)
        index == findIndex(collection, itemId)
    IN  IF index # 0
        THEN LET merged == Merge(Merge(collection[index], updates), [updatedAt |-> t])
             IN  [blob |-> setCollection(b, m, t, name,
                               [collection EXCEPT ![index] = merged]).blob,
                  found |-> TRUE,
                  ret |-> merged]
        ELSE [blob |-> setCollection(b, m, t, name, collection).blob, found |-> FALSE]

\* the result of updateInCollection: the blob afterwards, whether an item was
\* found, and the item returned (when found)
updateInCollection(b, m, t, name, itemId, updates) ==
    LET collection == getCollection(b, m, name)
        index == findIndex(collection, itemId)
    IN  IF index # 0
        THEN LET merged == Merge(Merge(collection[index], updates), [updatedAt |-> t])
             IN  [blob |-> setCollection(b, m, t, name,
                               [collection EXCEPT ![index] = merged]).blob,
                  found |-> TRUE,
                  ret |-> merged]
        ELSE [blob |-> b, found |-> FALSE]

\* the result of removeFromCollection: the blob afterwards and the value returned
removeFromCollection(b, m, t, name, itemId) ==
    LET collection == getCollection(b, m, name)
        keep(item) == ~("id" \in DOMAIN item /\ item.id = itemId)
        filtered == SelectSeq(collection, keep)
    IN  IF Len(filtered) < Len(collection)
        THEN [blob |-> setCollection(b, m, t, name, filtered).blob, ret |-> TRUE]
        ELSE [blob |-> b, ret |-> FALSE]

\* findInCollection(name, x => x.id === itemId): <<>> stands for undefined
findInCollection(b, m, name, itemId) ==
    LET collection == getCollection(b, m, name)
        index == findIndex(collection, itemId)
    IN  IF index # 0 THEN <<collection[index]>> ELSE <<>>

\* ------------------------------------------------- the store (operations)

StoreNames == {"reviews"}

\* what the callers store: a review as submitReview builds it (its own id, a
\* sub-rating that was not chosen, no comment box), a complete review, and a
\* notification as addNotification builds it
Items(name) ==
    IF name = "reviews"
    THEN {[id |-> 1, bookingId |-> 1, rating |-> "5", qualityRating |-> "NaN",
           comment |-> "undefined"]}
    ELSE {[title |-> "hello", read |-> FALSE]}

\* the patches: a copy of an entity taken earlier and edited (it carries the
\* old updatedAt), and the patch of markNotificationRead
Patches(name) ==
    IF name = "reviews"
    THEN {[rating |-> "1", comment |-> "edited", updatedAt |-> 0]}
    ELSE {[read |-> TRUE]}

\* the ids of the entities stored in a collection
idsOf(collection) ==
    {collection[i].id : i \in {j \in 1 .. Len(collection) : "id" \in DOMAIN collection[j]}}

\* an id that generateId has not produced
AbsentId == generateId(MaxClock + 1, 0)

\* getData() returns null
Unreadable == getData(blob, medium).kind = "null"

\* new StorageManager() on page load: every in-memory copy is gone
Construct ==
    /\ blob' = initializeStorage(blob, medium, now)
    /\ bookings' = <<>>
    /\ last' = [op |-> "constructor", unreadable |-> Unreadable, writable |-> medium = "ok"]
    /\ UNCHANGED <<medium, now, view, userLocation, api, auth, app>>

AddToCollection(name, item, r) ==
    /\ Len(getCollection(blob, "ok", name)) < MaxItems
    /\ LET res == addToCollection(blob, medium, now, r, name, item)
       IN  /\ blob' = res.blob
           /\ last' = [op |-> "addToCollection", name |-> name, item |-> item,
                       ret |-> res.ret, unreadable |-> Unreadable, writable |-> medium = "ok"]
    /\ UNCHANGED <<medium, now, bookings, view, userLocation, api, auth, app>>

UpdateInCollection(name, itemId, updates) ==
    /\ LET res == updateInCollection(blob, medium, now, name, itemId, updates)
       IN  /\ blob' = res.blob
           /\ last' = [op |-> "updateInCollection", name |-> name, itemId |-> itemId,
                       updates |-> updates,
                       ret |-> IF res.found THEN <<res.ret>> ELSE <<>>,
                       unreadable |-> Unreadable]
    /\ UNCHANGED <<medium, now, bookings, view, userLocation, api, auth, app>>

RemoveFromCollection(name, itemId) ==
    /\ LET res == removeFromCollection(blob, medium, now, name, itemId)
       IN  /\ blob' = res.blob
           /\ last' = [op |-> "removeFromCollection", name |-> name, itemId |-> itemId,
                       ret |-> res.ret, unreadable |-> Unreadable]
    /\ UNCHANGED <<medium, now, bookings, view, userLocation, api, auth, app>>

\* the environment: the storage medium fills up, is blocked, recovers
MediumChange(m) ==
    /\ m # medium
    /\ medium' = m
    /\ UNCHANGED <<blob, now, bookings, last, view, userLocation, api, auth, app>>

\* the environment: time passes
Tick ==
    /\ now < MaxClock
    /\ now' = now + 1
    /\ UNCHANGED <<blob, medium, bookings, last, view, userLocation, api, auth, app>>

\* what localStorage may hold when the page loads: nothing, text that does not
\* parse, or the document an earlier page load left at time 0
storedNotification ==
    [id |-> generateId(0, 0), createdAt |-> 0, updatedAt |-> 0, title |-> "hello", read |-> FALSE]

PreBlobs ==
    {Missing, Corrupt, defaultSchema(0),
     [defaultSchema(0) EXCEPT !.collections["notifications"] = <<storedNotification>>]}

InitStore ==
    /\ now = 1
    /\ userLocation = <<>>
    /\ api = newApiService(TRUE, FALSE)
    /\ auth = newAuthenticationService
    /\ app = newQuickServeApp
    /\ medium \in Mediums
    /\ \E pre \in PreBlobs :
        /\ blob = initializeStorage(pre, medium, now)
        /\ last = [op |-> "constructor",
                   unreadable |-> getData(pre, medium).kind = "null",
                   writable |-> medium = "ok"]
    /\ bookings = <<>>
    /\ view = newProvidersView(providersPerPage)

NextStore ==
    \/ Construct
    \/ \E r \in Rand : \E item \in Items("reviews") : AddToCollection("reviews", item, r)
    \/ \E name \in StoreNames : \E updates \in Patches(name) :
        \E itemId \in idsOf(getCollection(blob, "ok", name)) \cup {AbsentId} :
           UpdateInCollection(name, itemId, updates)
    \/ \E name \in StoreNames :
        \E itemId \in idsOf(getCollection(blob, "ok", name)) \cup {AbsentId} :
           RemoveFromCollection(name, itemId)
    \/ \E m \in Mediums : MediumChange(m)
    \/ Tick

SpecStore == InitStore /\ [][NextStore]_vars

\* ------------------------------------------------------ the session (pure)

\* Storage.getCurrentUser(): null, undefined (the pointer names no stored
\* user) or the user
getCurrentUser(b, m) ==
    LET data == getData(b, m)
        userId == IF data.kind = "doc" /\ "settings" \in DOMAIN data
                  THEN data.settings.currentUser ELSE 0
    IN  IF userId # 0
        THEN LET found == findInCollection(b, m, "users", userId)
             IN  IF found = <<>> THEN [kind |-> "undefined"]
                 ELSE [kind |-> "user", user |-> found[1]]
        ELSE [kind |-> "null"]

isAuthenticated(b, m) == getCurrentUser(b, m).kind # "null"

\* the id of the signed-in user (0: none)
getCurrentUserId(b, m) ==
    LET data == getData(b, m)
    IN  IF data.kind = "doc" /\ "settings" \in DOMAIN data
        THEN data.settings.currentUser ELSE 0

\* --------------------------------------------------------- bookings (pure)

Otps == {"1234", "5678"}

\* array.sort((a, b) => new Date(b.createdAt) - new Date(a.createdAt)):
\* newest first, equal dates keep their order
RECURSIVE sortNewestFirst(_)
sortNewestFirst(s) ==
    IF Len(s) <= 1 THEN s
    ELSE LET rest == sortNewestFirst(Tail(s))
             x == Head(s)
             before == {i \in 0 .. Len(rest) :
                           \A j \in 1 .. Len(rest) :
                               (j <= i) <=> (rest[j].createdAt > x.createdAt)}
             k == IF before = {} THEN 0 ELSE CHOOSE i \in before : TRUE
         IN  SubSeq(rest, 1, k) \o <<x>> \o SubSeq(rest, k + 1, Len(rest))

\* Storage.filterCollection('bookings', b => b.customerId === userId), sorted
loadedBookings(b, m) ==
    LET userId == getCurrentUserId(b, m)
        mine(x) == x.customerId = userId
    IN  sortNewestFirst(SelectSeq(getCollection(b, m, "bookings"), mine))

\* parseInt of a radio value
parseInt(v) == IF v = "undefined" THEN "NaN" ELSE v

\* the field of a record, "undefined" when absent
Field(o, f) == IF f \in DOMAIN o THEN o[f] ELSE "undefined"

\* the loop of checkBookingUpdates over the active bookings of its snapshot:
\* choice[i] is the status drawn for snapshot[i], "none" when no change is drawn
RECURSIVE pollFrom(_, _, _, _, _, _)
pollFrom(b, m, t, snapshot, choice, i) ==
    IF i > Len(snapshot) THEN b
    ELSE LET booking == snapshot[i]
             active == booking.status = "pending" \/ booking.status = "confirmed"
         IN  IF active /\ choice[i] # "none" /\ choice[i] # booking.status
             THEN pollFrom(
                      updateInCollection(b, m, t, "bookings", booking.id,
                          [booking EXCEPT !.status = choice[i]]).blob,
                      m, t, snapshot, choice, i + 1)
             ELSE pollFrom(b, m, t, snapshot, choice, i + 1)

\* --------------------------------------------------- bookings (operations)

\* BookingView.loadBookings
LoadBookings ==
    /\ isAuthenticated(blob, medium)
    /\ bookings' = loadedBookings(blob, medium)
    /\ last' = [op |-> "loadBookings"]
    /\ UNCHANGED <<blob, medium, now, view, userLocation, api, auth, app>>

\* BookingView.cancelBooking, the dialog confirmed
CancelBooking(bookingId) ==
    LET bookingIndex == findIndex(bookings, bookingId)
    IN  /\ bookingIndex # 0
        /\ LET copy == Merge(bookings[bookingIndex],
                             [status |-> "cancelled", cancelledAt |-> now])
           IN  /\ bookings' = [bookings EXCEPT ![bookingIndex] = copy]
               /\ blob' = updateInCollection(blob, medium, now, "bookings", bookingId, copy).blob
        /\ last' = [op |-> "cancelBooking", bookingId |-> bookingId]
        /\ UNCHANGED <<medium, now, view, userLocation, api, auth, app>>

\* BookingView.submitReview with the values read from the review form
SubmitReview(bookingId, rating, sub, comment, r) ==
    LET bookingIndex == findIndex(bookings, bookingId)
    IN  /\ rating # "undefined"
        /\ bookingIndex # 0
        /\ Len(getCollection(blob, "ok", "reviews")) < MaxItems
        /\ LET copy == Merge(bookings[bookingIndex],
                             [reviewed |-> TRUE,
                              review |-> [rating |-> parseInt(rating),
                                          qualityRating |-> parseInt(sub),
                                          punctualityRating |-> parseInt(sub),
                                          behaviorRating |-> parseInt(sub),
                                          comment |-> comment,
                                          reviewedAt |-> now]])
               review == [id |-> now,
                          bookingId |-> bookingId,
                          customerId |-> getCurrentUserId(blob, medium),
                          providerId |-> Field(copy, "providerId"),
                          rating |-> parseInt(rating),
                          qualityRating |-> parseInt(sub),
                          punctualityRating |-> parseInt(sub),
                          behaviorRating |-> parseInt(sub),
                          comment |-> comment,
                          serviceType |-> Field(copy, "serviceType"),
                          createdAt |-> now]
               updated == updateInCollection(blob, medium, now, "bookings", bookingId, copy).blob
           IN  /\ bookings' = [bookings EXCEPT ![bookingIndex] = copy]
               /\ blob' = addToCollection(updated, medium, now, r, "reviews", review).blob
        /\ last' = [op |-> "submitReview", bookingId |-> bookingId]
        /\ UNCHANGED <<medium, now, view, userLocation, api, auth, app>>

\* AuthenticationService.generateBookingOTP
GenerateBookingOTP(bookingId, otp) ==
    /\ blob' = updateInCollection(blob, medium, now, "bookings", bookingId,
                   [startOTP |-> otp, otpGeneratedAt |-> now]).blob
    /\ last' = [op |-> "generateBookingOTP", bookingId |-> bookingId]
    /\ UNCHANGED <<medium, now, bookings, view, userLocation, api, auth, app>>

\* AuthenticationService.verifyBookingOTP
VerifyBookingOTP(bookingId, otp, type) ==
    LET booking == findInCollection(blob, medium, "bookings", bookingId)
        otpField == IF type = "start" THEN "startOTP" ELSE "endOTP"
        status == IF type = "start" THEN "in_progress" ELSE "completed"
        stamp == IF type = "start" THEN [startVerifiedAt |-> now] ELSE [endVerifiedAt |-> now]
    IN  /\ IF booking # <<>> /\ Field(booking[1], otpField) = otp
           THEN /\ blob' = updateInCollection(blob, medium, now, "bookings", bookingId,
                               Merge([status |-> status], stamp)).blob
                /\ last' = [op |-> "verifyBookingOTP", bookingId |-> bookingId, success |-> TRUE]
           ELSE /\ blob' = blob
                /\ last' = [op |-> "verifyBookingOTP", bookingId |-> bookingId, success |-> FALSE]
        /\ UNCHANGED <<medium, now, bookings, view, userLocation, api, auth, app>>

\* QuickServeApp.checkBookingUpdates, one run of the 20 s timer
CheckBookingUpdates(choice) ==
    /\ blob' = pollFrom(blob, medium, now, getCollection(blob, medium, "bookings"), choice, 1)
    /\ last' = [op |-> "checkBookingUpdates"]
    /\ UNCHANGED <<medium, now, bookings, view, userLocation, api, auth, app>>

\* the bookings an earlier page load left in the document
BookingIds == 1 .. NumBookings

storedBooking(k) ==
    [id |-> k, customerId |-> 1, providerId |-> 7, serviceType |-> "plumbing",
     status |-> "pending", createdAt |-> 0, updatedAt |-> 0]

storedUser == [id |-> 1, role |-> "customer", createdAt |-> 0, updatedAt |-> 0]

\* withEndOTP: the bookings were stored with the OTP that ends the service
bookingsDocument(withEndOTP) ==
    [defaultSchema(0) EXCEPT
        !.collections["bookings"] =
            [k \in BookingIds |->
                IF withEndOTP THEN Merge(storedBooking(k), [endOTP |-> "5678"])
                ELSE storedBooking(k)],
        !.collections["users"] = <<storedUser>>,
        !.settings.currentUser = 1]

PollChoices == {"none", "confirmed", "in_progress", "completed"}

InitBooking ==
    /\ now = 1
    /\ userLocation = <<>>
    /\ api = newApiService(TRUE, FALSE)
    /\ auth = newAuthenticationService
    /\ app = newQuickServeApp
    /\ medium = "ok"
    /\ \E withEndOTP \in BOOLEAN :
           blob = initializeStorage(bookingsDocument(withEndOTP), medium, now)
    /\ bookings = <<>>
    /\ last = [op |-> "constructor", unreadable |-> FALSE, writable |-> TRUE]
    /\ view = newProvidersView(providersPerPage)

NextBooking ==
    \/ LoadBookings
    \/ \E bookingId \in BookingIds : CancelBooking(bookingId)
    \/ \E bookingId \in BookingIds, rating \in {"5", "undefined"}, sub \in {"4", "undefined"},
          r \in Rand :
           SubmitReview(bookingId, rating, sub, "good", r)
    \/ \E bookingId \in BookingIds, otp \in Otps : GenerateBookingOTP(bookingId, otp)
    \/ \E bookingId \in BookingIds, otp \in Otps, type \in {"start", "end"} :
           VerifyBookingOTP(bookingId, otp, type)
    \/ \E choice \in [BookingIds -> PollChoices] : CheckBookingUpdates(choice)

SpecBooking == InitBooking /\ [][NextBooking]_vars

\* ------------------------------------------------------ claims: bookings

\* the bookings collection as persisted
StoredBookings == getCollection(blob, "ok", "bookings")
StoredReviews == getCollection(blob, "ok", "reviews")

AllowedTransitions ==
    {<<"pending", "confirmed">>, <<"confirmed", "in_progress">>,
     <<"in_progress", "completed">>, <<"pending", "cancelled">>,
     <<"confirmed", "cancelled">>, <<"completed", "refunded">>}

\* C1: every change of a stored booking's status is one of the six permitted
\* transitions of the booking state machine.
C1_OnlyPermittedTransitions ==
    [][\A k \in 1 .. Len(StoredBookings) :
          StoredBookings'[k].status # StoredBookings[k].status
              => <<StoredBookings[k].status, StoredBookings'[k].status>> \in AllowedTransitions]_vars

\* C2: cancelled is terminal: a stored booking whose status is cancelled keeps
\* that status in every later step.
C2_CancelledIsTerminal ==
    [][\A k \in 1 .. Len(StoredBookings) :
          StoredBookings[k].status = "cancelled" => StoredBookings'[k].status = "cancelled"]_vars

\* C3: a stored booking has cancelledAt set if and only if its status is
\* cancelled.
C3_CancelledAtIffCancelled ==
    \A k \in 1 .. Len(StoredBookings) :
        ("cancelledAt" \in DOMAIN StoredBookings[k]) <=> (StoredBookings[k].status = "cancelled")

isReviewed(booking) == "reviewed" \in DOMAIN booking /\ booking.reviewed = TRUE

\* C4: a stored booking has reviewed=true if and only if it carries a review
\* sub-record, and a booking becomes reviewed only when its status is completed.
C4_ReviewedOnlyWhenCompleted ==
    /\ [](\A k \in 1 .. Len(StoredBookings) :
              isReviewed(StoredBookings[k]) <=> ("review" \in DOMAIN StoredBookings[k]))
    /\ [][\A k \in 1 .. Len(StoredBookings) :
              (~isReviewed(StoredBookings[k]) /\ isReviewed(StoredBookings'[k]))
                  => StoredBookings[k].status = "completed"]_vars

\* C5: the reviews collection holds at most one review per bookingId, and every
\* review's bookingId names a stored booking whose status is completed.
C5_OneReviewPerCompletedBooking ==
    /\ \A i, j \in 1 .. Len(StoredReviews) :
           i # j => StoredReviews[i].bookingId # StoredReviews[j].bookingId
    /\ \A i \in 1 .. Len(StoredReviews) :
           \E k \in 1 .. Len(StoredBookings) :
               /\ StoredBookings[k].id = StoredReviews[i].bookingId
               /\ StoredBookings[k].status = "completed"

\* --------------------------------------------------------- claims: store

\* the named collection as persisted
Persisted(name) == getCollection(blob, "ok", name)

\* C6: read-your-writes: findInCollection on the id addToCollection returned
\* retrieves the input fields plus the assigned id, createdAt and updatedAt
\* (as the JSON values of those fields), whatever the storage write did.
C6_AddThenFindRoundTrip ==
    [][\A name \in StoreNames, r \in Rand : \A item \in Items(name) :
          AddToCollection(name, item, r)
              => findInCollection(blob', medium', name, last'.ret.id)
                     = <<stringifyEntity(Merge(item, [id |-> last'.ret.id,
                                                      createdAt |-> last'.ret.createdAt,
                                                      updatedAt |-> last'.ret.updatedAt]))>>]_vars

\* C7: updateInCollection with an id that no entity of the collection has
\* returns null and leaves the persisted document as it was.
C7_UpdateMissingIdChangesNothing ==
    [][\A name \in StoreNames : \A updates \in Patches(name) :
          (AbsentId \notin idsOf(Persisted(name)) /\ UpdateInCollection(name, AbsentId, updates))
              => (blob' = blob /\ last'.ret = <<>>)]_vars

\* C7's case: an update with an absent id has run on a collection that holds
\* entities, at a time later than the document's last write
C7_Witness ==
    /\ last.op = "updateInCollection"
    /\ last.itemId = AbsentId
    /\ Len(Persisted(last.name)) > 0
    /\ medium = "ok"
    /\ blob.lastUpdated < now

\* C8: updateInCollection on an existing id returns the old fields overridden
\* by the patch with updatedAt refreshed, stores that entity at the same
\* position, and changes nothing else in the document's collections.
C8_UpdateMergesInPlace ==
    [][\A name \in StoreNames : \A updates \in Patches(name) :
          \A itemId \in idsOf(Persisted(name)) :
              UpdateInCollection(name, itemId, updates)
                  => LET index == findIndex(Persisted(name), itemId)
                         expected == Merge(Merge(Persisted(name)[index], updates),
                                           [updatedAt |-> now])
                     IN  /\ last'.ret = <<expected>>
                         /\ Persisted(name)' = [Persisted(name) EXCEPT ![index] = expected]
                         /\ \A other \in CollectionNames \ {name} :
                                Persisted(other)' = Persisted(other)]_vars

\* C9: no two entities of a collection share an id, and the id addToCollection
\* assigns is the id of no entity stored before the call.
C9_IdsAreFresh ==
    /\ [](\A name \in CollectionNames :
              \A i, j \in 1 .. Len(Persisted(name)) :
                  i # j => Persisted(name)[i].id # Persisted(name)[j].id)
    /\ [][\A name \in StoreNames, r \in Rand : \A item \in Items(name) :
              AddToCollection(name, item, r)
                  => last'.ret.id \notin idsOf(Persisted(name))]_vars

\* C10: an operation that finds the blob missing, corrupt or unreadable leaves
\* the default schema (or the document it then changed) behind, and an
\* addToCollection that ran in that situation has stored its item; stated for
\* the operations that ran while the medium accepted writes.
C10_ReinitializedWhenUnreadable ==
    (last.op \in {"constructor", "addToCollection"} /\ last.unreadable /\ last.writable)
        => /\ blob.kind = "doc"
           /\ last.op = "addToCollection"
                  => findIndex(Persisted(last.name), last.ret.id) # 0

\* ------------------------------------------- session and users (pure)

\* the result of setCurrentUser: the blob afterwards and the value returned
setCurrentUser(b, m, t, userId) ==
    LET data == getData(b, m)
    IN  IF data.kind = "doc" /\ "settings" \in DOMAIN data
        THEN setData(b, m, t, [data EXCEPT !.settings.currentUser = userId])
        ELSE [blob |-> b, ok |-> FALSE]

\* the result of clearSession: the blob afterwards and the value returned
clearSession(b, m, t) ==
    LET data == getData(b, m)
    IN  IF data.kind = "doc" /\ "settings" \in DOMAIN data
        THEN setData(b, m, t, [data EXCEPT !.settings.currentUser = 0])
        ELSE [blob |-> b, ok |-> FALSE]

\* the result of addNotification
addNotification(b, m, t, r, notification) ==
    addToCollection(b, m, t, r, "notifications",
        Merge(notification, [read |-> FALSE, timestamp |-> t]))

\* Storage.findInCollection('users', u => u.phoneNumber === phoneNumber)
findUserByPhone(b, m, phoneNumber) ==
    LET users == getCollection(b, m, "users")
        hits == {i \in 1 .. Len(users) : Field(users[i], "phoneNumber") = phoneNumber}
    IN  IF hits = {} THEN <<>> ELSE <<users[CHOOSE i \in hits : \A j \in hits : i <= j]>>

\* the collection registerUser copies the user into
roleCollection(role) ==
    IF role = "provider" THEN "providers"
    ELSE IF role = "customer" THEN "customers"
    ELSE "otherWorkers"

\* the role-specific fields registerUser adds
roleFields(role) ==
    IF role = "provider" THEN [serviceRadius |-> 10, completedJobs |-> 0, earnings |-> 0]
    ELSE IF role = "other" THEN [canUpgradeToProvider |-> TRUE, temporaryRating |-> 0]
    ELSE [isActive |-> TRUE]

\* the result of registerUser: the blob afterwards, success, and the saved user
registerUser(b, m, t, r1, r2, userData) ==
    IF findUserByPhone(b, m, userData.phoneNumber) # <<>>
    THEN [blob |-> b, success |-> FALSE]
    ELSE LET newUser == Merge(Merge(userData,
                                  [verificationStatus |-> "phone_verified", isActive |-> TRUE,
                                   profileCompleted |-> FALSE, rating |-> "0",
                                   totalReviews |-> 0, joinedAt |-> t]),
                              roleFields(userData.role))
             saved == addToCollection(b, m, t, r1, "users", newUser)
             copied == addToCollection(saved.blob, m, t, r2, roleCollection(newUser.role),
                           Merge([userId |-> saved.ret.id], saved.ret))
         IN  [blob |-> copied.blob, success |-> TRUE, user |-> saved.ret]

\* the result of _ensureLocalUserFromSupabase: the blob afterwards
ensureLocalUserFromSupabase(b, m, t, authUser) ==
    LET users == getCollection(b, m, "users")
        profile == [id |-> authUser.id, email |-> authUser.email,
                    phoneNumber |-> authUser.phone, fullName |-> "User",
                    role |-> "customer", verificationStatus |-> "phone_verified",
                    isActive |-> TRUE, profileCompleted |-> FALSE, rating |-> "0",
                    totalReviews |-> 0, joinedAt |-> t]
    IN  IF findIndex(users, authUser.id) = 0
        THEN setCollection(b, m, t, "users", Append(users, profile)).blob
        ELSE b

\* the result of syncLocalUser: the blob afterwards
syncLocalUser(b, m, t, r, user) ==
    IF findInCollection(b, m, "users", user.id) # <<>>
    THEN updateInCollection(b, m, t, "users", user.id,
             [name |-> user.name, email |-> user.email, phoneNumber |-> user.phone,
              role |-> user.role, status |-> user.status, verified |-> user.verified]).blob
    ELSE addToCollection(b, m, t, r, "users",
             [id |-> user.id, fullName |-> user.name, email |-> user.email,
              phoneNumber |-> user.phone, role |-> user.role,
              isActive |-> user.status = "active",
              verificationStatus |-> IF user.verified THEN "fully_verified"
                                     ELSE "unverified"]).blob

\* the file handed to importData, as JSON.parse reads it
validBackup(data) ==
    /\ data.kind = "doc"
    /\ Field(data, "version") \notin {"undefined", ""}
    /\ "collections" \in DOMAIN data

\* importData without its format check
importData_unchecked(b, m, t, data) ==
    [blob |-> setData(b, m, t, data).blob, resolved |-> TRUE]

\* the result of importData: the blob afterwards and whether the promise resolved
importData(b, m, t, data) ==
    IF validBackup(data)
    THEN [blob |-> setData(b, m, t, data).blob, resolved |-> TRUE]
    ELSE [blob |-> b, resolved |-> FALSE]

\* ------------------------------------- session and users (operations)

Phones == {"+911", "+912"}

\* what the registration form hands to registerUser
UserData ==
    {[phoneNumber |-> "+911", fullName |-> "Asha", role |-> "customer"],
     [phoneNumber |-> "+912", fullName |-> "Ravi", role |-> "provider"]}

\* the users the auth server knows (Supabase auth user / AuthApi user)
ServerUserId == 90
AuthUsers ==
    {[id |-> ServerUserId, phone |-> "+911", email |-> "asha@example.com", name |-> "Asha",
      role |-> "customer", status |-> "active", verified |-> TRUE]}

\* the backup files importData is given, as JSON.parse reads them
backupUser ==
    [id |-> generateId(0, 1), phoneNumber |-> "+912", fullName |-> "Ravi", role |-> "customer",
     createdAt |-> 0, updatedAt |-> 0]

fullBackup ==
    [defaultSchema(0) EXCEPT !.collections["users"] = <<backupUser>>,
                             !.settings.currentUser = backupUser.id]

BackupFiles ==
    {Corrupt, NullData, fullBackup,
     [f \in DOMAIN fullBackup \ {"settings"} |-> fullBackup[f]],
     [f \in DOMAIN fullBackup \ {"version"} |-> fullBackup[f]],
     [f \in DOMAIN fullBackup \ {"collections"} |-> fullBackup[f]],
     [fullBackup EXCEPT !.version = ""]}

UserIds == idsOf(getCollection(blob, "ok", "users")) \cup {ServerUserId}

NotificationsFit == Len(getCollection(blob, "ok", "notifications")) < MaxNotifications
UsersFit == Len(getCollection(blob, "ok", "users")) < MaxItems

\* Storage.setCurrentUser
SetCurrentUser(userId) ==
    /\ LET res == setCurrentUser(blob, medium, now, userId)
       IN  /\ blob' = res.blob
           /\ last' = [op |-> "setCurrentUser", userId |-> userId, ret |-> res.ok]
    /\ UNCHANGED <<medium, now, bookings, view, userLocation, api, auth, app>>

\* Storage.clearSession
ClearSession ==
    /\ LET res == clearSession(blob, medium, now)
       IN  /\ blob' = res.blob
           /\ last' = [op |-> "clearSession", ret |-> res.ok]
    /\ UNCHANGED <<medium, now, bookings, view, userLocation, api, auth, app>>

\* AuthenticationService.logoutUser
LogoutUser(r) ==
    /\ NotificationsFit
    /\ LET currentUser == getCurrentUser(blob, medium)
           notified == IF currentUser.kind = "user"
                       THEN addNotification(blob, medium, now, r,
                                [type |-> "logout", title |-> "Logged Out",
                                 userId |-> currentUser.user.id]).blob
                       ELSE blob
       IN  /\ blob' = clearSession(notified, medium, now).blob
           /\ last' = [op |-> "logoutUser", success |-> TRUE]
    /\ UNCHANGED <<medium, now, bookings, view, userLocation, api, auth, app>>

\* QuickServeApp.performLogout
PerformLogout ==
    /\ blob' = clearSession(blob, medium, now).blob
    /\ last' = [op |-> "performLogout"]
    /\ UNCHANGED <<medium, now, bookings, view, userLocation, api, auth, app>>

\* AuthenticationService.registerUser
RegisterUser(userData, r1, r2) ==
    /\ UsersFit
    /\ LET res == registerUser(blob, medium, now, r1, r2, userData)
       IN  /\ blob' = res.blob
           /\ last' = [op |-> "registerUser", phoneNumber |-> userData.phoneNumber,
                       success |-> res.success]
    /\ UNCHANGED <<medium, now, bookings, view, userLocation, api, auth, app>>

\* AuthenticationService.loginUser, local path, the OTP accepted
LoginUser(phoneNumber, r) ==
    /\ NotificationsFit
    /\ LET user == findUserByPhone(blob, medium, phoneNumber)
       IN  IF user = <<>>
           THEN /\ blob' = blob
                /\ last' = [op |-> "loginUser", phoneNumber |-> phoneNumber, success |-> FALSE]
           ELSE LET signedIn == setCurrentUser(blob, medium, now, user[1].id).blob
                    stamped == updateInCollection(signedIn, medium, now, "users", user[1].id,
                                   [lastLogin |-> now]).blob
                IN  /\ blob' = addNotification(stamped, medium, now, r,
                                   [type |-> "login", title |-> "Login Successful",
                                    userId |-> user[1].id]).blob
                    /\ last' = [op |-> "loginUser", phoneNumber |-> phoneNumber,
                                success |-> TRUE]
    /\ UNCHANGED <<medium, now, bookings, view, userLocation, api, auth, app>>

\* AuthenticationService.loginUser, Supabase path, the OTP accepted: verifyOTP
\* and loginUser both call _ensureLocalUserFromSupabase
LoginUserSupabase(authUser, r) ==
    /\ NotificationsFit
    /\ UsersFit
    /\ LET verified == ensureLocalUserFromSupabase(blob, medium, now, authUser)
           ensured == ensureLocalUserFromSupabase(verified, medium, now, authUser)
           signedIn == setCurrentUser(ensured, medium, now, authUser.id).blob
       IN  /\ blob' = addNotification(signedIn, medium, now, r,
                          [type |-> "login", title |-> "Login Successful",
                           userId |-> authUser.id]).blob
           /\ last' = [op |-> "loginUserSupabase", phoneNumber |-> authUser.phone,
                       success |-> TRUE]
    /\ UNCHANGED <<medium, now, bookings, view, userLocation, api, auth, app>>

\* QuickServeApp.serverLoginPrompt, the server accepted the login:
\* syncLocalUser, then setCurrentUser
ServerLoginPrompt(user, r) ==
    /\ UsersFit
    /\ LET synced == syncLocalUser(blob, medium, now, r, user)
       IN  /\ blob' = setCurrentUser(synced, medium, now, user.id).blob
           /\ last' = [op |-> "serverLoginPrompt", phoneNumber |-> user.phone]
    /\ UNCHANGED <<medium, now, bookings, view, userLocation, api, auth, app>>

\* StorageManager.importData, the file read
ImportData(data) ==
    /\ LET res == importData(blob, medium, now, data)
       IN  /\ blob' = res.blob
           /\ last' = [op |-> "importData", valid |-> validBackup(data),
                       resolved |-> res.resolved]
    /\ UNCHANGED <<medium, now, bookings, view, userLocation, api, auth, app>>

\* AuthenticationService.isAuthenticated / AuthService.isAuthenticated
IsAuthenticated ==
    /\ last' = [op |-> "isAuthenticated", ret |-> isAuthenticated(blob, medium)]
    /\ UNCHANGED <<blob, medium, now, bookings, view, userLocation, api, auth, app>>

InitUsers ==
    /\ now = 1
    /\ userLocation = <<>>
    /\ api = newApiService(TRUE, FALSE)
    /\ auth = newAuthenticationService
    /\ app = newQuickServeApp
    /\ medium = "ok"
    /\ blob = initializeStorage(Missing, medium, now)
    /\ bookings = <<>>
    /\ last = [op |-> "constructor", unreadable |-> TRUE, writable |-> TRUE]
    /\ view = newProvidersView(providersPerPage)

NextUsers ==
    \/ IsAuthenticated
    \/ \E userId \in UserIds : SetCurrentUser(userId)
    \/ ClearSession
    \/ \E r \in Rand : LogoutUser(r)
    \/ PerformLogout
    \/ \E userData \in UserData, r1, r2 \in Rand : RegisterUser(userData, r1, r2)
    \/ \E phoneNumber \in Phones, r \in Rand : LoginUser(phoneNumber, r)
    \/ \E authUser \in AuthUsers, r \in Rand : LoginUserSupabase(authUser, r)
    \/ \E user \in AuthUsers, r \in Rand : ServerLoginPrompt(user, r)
    \/ \E data \in BackupFiles : ImportData(data)
    \/ \E m \in {"ok", "full"} : MediumChange(m)

SpecUsers == InitUsers /\ [][NextUsers]_vars

\* ------------------------------------------- claims: import, session, users

\* the parsed input has both a version and a collections field
hasVersionAndCollections(data) ==
    data.kind = "doc" /\ "version" \in DOMAIN data /\ "collections" \in DOMAIN data

\* C11: importData changes the persisted document only when the parsed input
\* has both a version and a collections field; for any other input the promise
\* is rejected and the persisted document stays exactly as it was.
C11_ImportOnlyValidBackups ==
    [][\A data \in BackupFiles :
          ImportData(data)
              => /\ blob' # blob => hasVersionAndCollections(data)
                 /\ ~hasVersionAndCollections(data) => (blob' = blob /\ ~last'.resolved)]_vars

\* C11's case: a file without version or collections (or one that does not
\* parse) was imported over a document that holds a user and a session
C11_Witness ==
    /\ last.op = "importData"
    /\ ~last.valid
    /\ ~last.resolved
    /\ medium = "ok"
    /\ Len(Persisted("users")) > 0
    /\ getCurrentUserId(blob, medium) # 0

\* the collections of the persisted document
Collections(b) == IF b.kind = "doc" /\ "collections" \in DOMAIN b THEN b.collections ELSE <<>>

\* C12: setCurrentUser(id) for a stored user makes getCurrentUser() return that
\* user; registering another user does not change it; after clearSession,
\* logoutUser or performLogout getCurrentUser() returns null; setCurrentUser
\* and clearSession change no collection.
C12_SingleSessionPointer ==
    [][/\ \A userId \in idsOf(Persisted("users")) :
              SetCurrentUser(userId)
                  => /\ getCurrentUser(blob', medium').kind = "user"
                     /\ getCurrentUser(blob', medium').user.id = userId
       /\ \A userData \in UserData, r1, r2 \in Rand :
              (getCurrentUser(blob, medium).kind = "user" /\ RegisterUser(userData, r1, r2))
                  => getCurrentUser(blob', medium') = getCurrentUser(blob, medium)
       /\ (ClearSession \/ PerformLogout \/ \E r \in Rand : LogoutUser(r))
              => getCurrentUser(blob', medium').kind = "null"
       /\ (ClearSession \/ \E userId \in UserIds : SetCurrentUser(userId))
              => Collections(blob') = Collections(blob)]_vars

\* the users collection as persisted
StoredUsers == Persisted("users")

\* C13: no two stored users have the same phoneNumber, and registerUser with a
\* phone number that is already registered reports failure and changes no
\* collection.
C13_PhoneNumberUnique ==
    /\ [](\A i, j \in 1 .. Len(StoredUsers) :
              i # j => Field(StoredUsers[i], "phoneNumber") # Field(StoredUsers[j], "phoneNumber"))
    /\ [][\A userData \in UserData, r1, r2 \in Rand :
              (findUserByPhone(blob, medium, userData.phoneNumber) # <<>>
                  /\ RegisterUser(userData, r1, r2))
                  => (~last'.success /\ Collections(blob') = Collections(blob))]_vars

\* ------------------------------------------ the providers view (pure)

\* String.prototype.toLowerCase on the letters the model uses
UpperCase == <<"A", "L", "P", "R", "V">>
LowerCase == <<"a", "l", "p", "r", "v">>

toLowerCase(text) ==
    [i \in 1 .. Len(text) |->
        IF \E k \in 1 .. Len(UpperCase) : UpperCase[k] = text[i]
        THEN LowerCase[CHOOSE k \in 1 .. Len(UpperCase) : UpperCase[k] = text[i]]
        ELSE text[i]]

\* String.prototype.includes
includes(text, part) ==
    \E i \in 0 .. Len(text) - Len(part) : SubSeq(text, i + 1, i + Len(part)) = part

\* the matchesSearch expression of applyFilters
matchesSearch(provider, searchQuery) ==
    LET searchLower == toLowerCase(searchQuery)
    IN  \/ includes(toLowerCase(provider.name), searchLower)
        \/ \E service \in provider.services : includes(toLowerCase(service), searchLower)
        \/ /\ "specializations" \in DOMAIN provider
           /\ \E spec \in provider.specializations : includes(toLowerCase(spec), searchLower)

\* `provider.distance` read as a condition: absent and 0 are both falsy
distanceIsTruthy(provider) == "distance" \in DOMAIN provider /\ provider.distance # 0

\* the callback of this.providers.filter(...) in applyFilters with the price
\* bounds exclusive
passesFilters_exclusivePrice(provider, filters, searchQuery) ==
    /\ searchQuery # <<>> => matchesSearch(provider, searchQuery)
    /\ ~(filters.service # <<>> /\ filters.service \notin provider.services)
    /\ ~(filters.rating > 0 /\ provider.rating < filters.rating)
    /\ ~(provider.basePrice <= filters.priceRange[1] \/ provider.basePrice >= filters.priceRange[2])
    /\ ~(distanceIsTruthy(provider) /\ provider.distance > filters.distance)
    /\ ~(filters.availability # "" /\ filters.availability = "available"
            /\ provider.availability # "available")
    /\ ~(filters.verification # "" /\ provider.verificationLevel # filters.verification)
    /\ ~(filters.experience > 0 /\ provider.experience < filters.experience)

\* the callback of this.providers.filter(...) in applyFilters
passesFilters(provider, filters, searchQuery) ==
    /\ searchQuery # <<>> => matchesSearch(provider, searchQuery)
    /\ ~(filters.service # <<>> /\ filters.service \notin provider.services)
    /\ ~(filters.rating > 0 /\ provider.rating < filters.rating)
    /\ ~(provider.basePrice < filters.priceRange[1] \/ provider.basePrice > filters.priceRange[2])
    /\ ~(distanceIsTruthy(provider) /\ provider.distance > filters.distance)
    /\ ~(filters.availability # "" /\ filters.availability = "available"
            /\ provider.availability # "available")
    /\ ~(filters.verification # "" /\ provider.verificationLevel # filters.verification)
    /\ ~(filters.experience > 0 /\ provider.experience < filters.experience)

Min(a, b) == IF a < b THEN a ELSE b
Max(a, b) == IF a > b THEN a ELSE b

\* calculateRelevanceScore without the cap on the review count
calculateRelevanceScore_uncapped(provider) ==
    32 * provider.rating
        + (IF provider.availability = "available" THEN 1000 ELSE 0)
        + (IF distanceIsTruthy(provider) THEN 16 * Max(0, 50 - provider.distance) ELSE 0)
        + 20 * Min(provider.experience, 20)
        + provider.reviewCount

\* calculateRelevanceScore, in fortieths: rating (tenths) * 0.4 * 20 is
\* 32/40 per tenth, 25 is 1000/40, 0.4 per km is 16/40, 0.5 per year is 20/40,
\* min(reviewCount / 10, 20) * 0.25 is min(reviewCount, 200)/40
calculateRelevanceScore(provider) ==
    32 * provider.rating
        + (IF provider.availability = "available" THEN 1000 ELSE 0)
        + (IF distanceIsTruthy(provider) THEN 16 * Max(0, 50 - provider.distance) ELSE 0)
        + 20 * Min(provider.experience, 20)
        + Min(provider.reviewCount, 200)

\* the compare function of sortProviders with the two price orders exchanged
compare_pricesExchanged(a, b, sortBy) ==
    CASE sortBy = "rating" -> b.rating - a.rating
      [] sortBy = "price_low" -> b.basePrice - a.basePrice
      [] sortBy = "price_high" -> a.basePrice - b.basePrice
      [] sortBy = "distance" ->
            IF ~distanceIsTruthy(a) /\ ~distanceIsTruthy(b) THEN 0
            ELSE IF ~distanceIsTruthy(a) THEN 1
            ELSE IF ~distanceIsTruthy(b) THEN -1
            ELSE a.distance - b.distance
      [] sortBy = "experience" -> b.experience - a.experience
      [] sortBy = "reviews" -> b.reviewCount - a.reviewCount
      [] sortBy = "availability" ->
            IF a.availability = "available" /\ b.availability # "available" THEN -1
            ELSE IF b.availability = "available" /\ a.availability # "available" THEN 1
            ELSE 0
      [] OTHER -> calculateRelevanceScore(b) - calculateRelevanceScore(a)

\* the compare function of sortProviders; tenths and fortieths keep the sign
compare(a, b, sortBy) ==
    CASE sortBy = "rating" -> b.rating - a.rating
      [] sortBy = "price_low" -> a.basePrice - b.basePrice
      [] sortBy = "price_high" -> b.basePrice - a.basePrice
      [] sortBy = "distance" ->
            IF ~distanceIsTruthy(a) /\ ~distanceIsTruthy(b) THEN 0
            ELSE IF ~distanceIsTruthy(a) THEN 1
            ELSE IF ~distanceIsTruthy(b) THEN -1
            ELSE a.distance - b.distance
      [] sortBy = "experience" -> b.experience - a.experience
      [] sortBy = "reviews" -> b.reviewCount - a.reviewCount
      [] sortBy = "availability" ->
            IF a.availability = "available" /\ b.availability # "available" THEN -1
            ELSE IF b.availability = "available" /\ a.availability # "available" THEN 1
            ELSE 0
      [] OTHER -> calculateRelevanceScore(b) - calculateRelevanceScore(a)

\* one insertion of a sort that is not stable: the element goes before the
\* elements it compares equal to
insertSorted_beforeEquals(sorted, x, sortBy) ==
    LET notAfter == {j \in 1 .. Len(sorted) : compare(sorted[j], x, sortBy) < 0}
        k == IF notAfter = {} THEN 0 ELSE CHOOSE j \in notAfter : \A i \in notAfter : i <= j
    IN  SubSeq(sorted, 1, k) \o <<x>> \o SubSeq(sorted, k + 1, Len(sorted))

\* Array.prototype.sort(compareFn), a stable sort (ECMAScript 2019): one
\* insertion puts the element after the last one that does not compare
\* greater than it
insertSorted(sorted, x, sortBy) ==
    LET notAfter == {j \in 1 .. Len(sorted) : compare(sorted[j], x, sortBy) <= 0}
        k == IF notAfter = {} THEN 0 ELSE CHOOSE j \in notAfter : \A i \in notAfter : i <= j
    IN  SubSeq(sorted, 1, k) \o <<x>> \o SubSeq(sorted, k + 1, Len(sorted))

RECURSIVE sortFrom(_, _, _)
sortFrom(sorted, rest, sortBy) ==
    IF rest = <<>> THEN sorted
    ELSE sortFrom(insertSorted(sorted, Head(rest), sortBy), Tail(rest), sortBy)

\* sortProviders: this.filteredProviders.sort(...) with this.currentFilters.sortBy
sortProviders(v) ==
    [v EXCEPT !.filteredProviders = sortFrom(<<>>, v.filteredProviders, v.currentFilters.sortBy)]

\* applyFilters: filter, sort, back to the first page
applyFilters(v) ==
    LET keep(provider) == passesFilters(provider, v.currentFilters, v.searchQuery)
        filtered == [v EXCEPT !.filteredProviders = SelectSeq(v.providers, keep)]
    IN  [sortProviders(filtered) EXCEPT !.currentPage = 1]

\* Math.ceil(this.filteredProviders.length / this.providersPerPage)
totalPages(count, perPage) == (count + perPage - 1) \div perPage

\* the slice of renderProviders that starts one page late
paginatedProviders_onePageLate(list, page, perPage) ==
    LET startIndex == page * perPage
        endIndex == startIndex + perPage
    IN  IF startIndex >= Len(list) THEN <<>>
        ELSE SubSeq(list, startIndex + 1, Min(endIndex, Len(list)))

\* this.filteredProviders.slice(startIndex, endIndex) of renderProviders
paginatedProviders(list, page, perPage) ==
    LET startIndex == (page - 1) * perPage
        endIndex == startIndex + perPage
    IN  IF startIndex >= Len(list) THEN <<>>
        ELSE SubSeq(list, startIndex + 1, Min(endIndex, Len(list)))

\* createPagination: the data-page values of the buttons it writes
createPagination(v) ==
    LET total == totalPages(Len(v.filteredProviders), v.providersPerPage)
        abs(n) == IF n < 0 THEN -n ELSE n
    IN  IF total <= 1 THEN {}
        ELSE (IF v.currentPage > 1 THEN {v.currentPage - 1} ELSE {})
             \cup {i \in 1 .. total :
                      i = v.currentPage \/ i = 1 \/ i = total \/ abs(i - v.currentPage) <= 2}
             \cup (IF v.currentPage < total THEN {v.currentPage + 1} ELSE {})

\* renderProviders: the cards and the page buttons written to providersContainer
\* (the empty state has neither)
renderProviders(v) ==
    LET cards == paginatedProviders(v.filteredProviders, v.currentPage, v.providersPerPage)
    IN  [v EXCEPT !.container =
            IF cards = <<>> THEN [cards |-> <<>>, pages |-> {}]
            ELSE [cards |-> cards, pages |-> createPagination(v)]]

\* ------------------------------------- the providers view (operations)

MaxProviders == 3
MaxPageSize == 2

\* the providers a list handed to showProviders is made of
Pool ==
    {[id |-> "provider_A", name |-> <<"R", "a">>, services |-> {<<"p", "l">>},
      specializations |-> {<<"V", "a", "l">>}, rating |-> 49, reviewCount |-> 203,
      experience |-> 12, basePrice |-> 600, availability |-> "available",
      verificationLevel |-> "fully_verified", distance |-> 2],
     [id |-> "provider_B", name |-> <<"P", "r">>, services |-> {<<"c", "l">>},
      specializations |-> {}, rating |-> 45, reviewCount |-> 156,
      experience |-> 6, basePrice |-> 400, availability |-> "available",
      verificationLevel |-> "aadhaar_verified", distance |-> 10],
     [id |-> "provider_C", name |-> <<"A", "l">>, services |-> {<<"p", "l">>, <<"c", "l">>},
      rating |-> 48, reviewCount |-> 178,
      experience |-> 10, basePrice |-> 550, availability |-> "busy",
      verificationLevel |-> "fully_verified"],
     [id |-> "provider_D", name |-> <<"R", "v">>, services |-> {<<"c", "l">>},
      specializations |-> {}, rating |-> 49, reviewCount |-> 203,
      experience |-> 12, basePrice |-> 600, availability |-> "available",
      verificationLevel |-> "police_verified", distance |-> 0],
     [id |-> "provider_E", name |-> <<"P", "v">>, services |-> {<<"a", "l">>},
      specializations |-> {}, rating |-> 48, reviewCount |-> 178,
      experience |-> 10, basePrice |-> 550, availability |-> "busy",
      verificationLevel |-> "unverified"]}

\* the lists: up to MaxProviders different providers in any order
ProviderLists ==
    UNION {{list \in [1 .. n -> Pool] : \A i, j \in 1 .. n : i # j => list[i] # list[j]} :
              n \in 0 .. MaxProviders}

SortOrders ==
    {"relevance", "rating", "price_low", "price_high", "distance", "experience", "reviews",
     "availability"}

Queries == {<<>>, <<"A", "l">>}

\* the filter sets: every combination of the seven filters under the default
\* order, and the default filters under every order
FilterSets ==
    {[service |-> service, location |-> <<>>, rating |-> rating, priceRange |-> priceRange,
      availability |-> availability, verification |-> verification,
      experience |-> experience, distance |-> distance, sortBy |-> "relevance"] :
        service \in {<<>>, <<"p", "l">>}, rating \in {0, 46, 50},
        priceRange \in {<<0, 5000>>, <<400, 550>>}, availability \in {"", "available"},
        verification \in {"", "fully_verified"}, experience \in {0, 10},
        distance \in {50, 5}}
    \cup {[defaultFilters EXCEPT !.sortBy = sortBy] : sortBy \in SortOrders}

\* the click on .apply-filters: applyFilters().  last.unapplied records that
\* the filters, the order or the query changed and applyFilters has not run since
ApplyFilters ==
    /\ view' = applyFilters(view)
    /\ last' = [op |-> "applyFilters", unapplied |-> FALSE]
    /\ UNCHANGED <<blob, medium, now, bookings, userLocation, api, auth, app>>

\* renderProviders(), as showProviders calls it after applyFilters
RenderProviders ==
    /\ view' = renderProviders(view)
    /\ last' = [op |-> "renderProviders", unapplied |-> last.unapplied]
    /\ UNCHANGED <<blob, medium, now, bookings, userLocation, api, auth, app>>

\* the click on a .pagination-btn: changePage(page)
ChangePage(page) ==
    /\ view' = renderProviders([view EXCEPT !.currentPage = page])
    /\ last' = [op |-> "changePage", page |-> page, unapplied |-> last.unapplied]
    /\ UNCHANGED <<blob, medium, now, bookings, userLocation, api, auth, app>>

\* showProviders(providers) has stored the list; the filters and the query are
\* what the user left
InitRanking ==
    /\ now = 1
    /\ userLocation = <<>>
    /\ api = newApiService(TRUE, FALSE)
    /\ auth = newAuthenticationService
    /\ app = newQuickServeApp
    /\ medium = "ok"
    /\ blob = initializeStorage(Missing, medium, now)
    /\ bookings = <<>>
    /\ last = [op |-> "showProviders", unapplied |-> TRUE]
    /\ \E providers \in ProviderLists, filters \in FilterSets, searchQuery \in Queries,
          perPage \in 1 .. MaxPageSize :
           view = [newProvidersView(perPage) EXCEPT !.providers = providers,
                                                    !.currentFilters = filters,
                                                    !.searchQuery = searchQuery]

NextRanking ==
    \/ ApplyFilters
    \/ RenderProviders
    \/ \E page \in view.container.pages : ChangePage(page)

SpecRanking == InitRanking /\ [][NextRanking]_vars

\* --------------------------------- the providers view (event handlers)

\* the inputs of the filter panel whose change event reaches updateFilter: a
\* rating radio, and the service select, which has no name attribute
FilterInputs ==
    {[name |-> "ratingFilter", type |-> "radio", checked |-> TRUE, value |-> 4],
     [name |-> "", type |-> "select-one", checked |-> FALSE, value |-> <<"p", "l">>]}

\* updateFilter(input): the filters afterwards; a rating is kept in tenths
updateFilter(filters, input) ==
    IF input.name = "ratingFilter"
    THEN IF input.checked THEN [filters EXCEPT !.rating = 10 * input.value] ELSE filters
    ELSE IF input.type = "checkbox"
         THEN IF "id" \in DOMAIN input /\ input.id = "availableNow" /\ input.checked
              THEN [filters EXCEPT !.availability = "available"]
              ELSE filters
         ELSE Merge(filters, [n \in {input.name} |-> input.value])

\* updatePriceRange: the range read from the two sliders
updatePriceRange(filters, priceMin, priceMax) ==
    LET minVal == IF priceMin > priceMax THEN priceMax ELSE priceMin
    IN  [filters EXCEPT !.priceRange = <<minVal, priceMax>>]

\* the input event of #providerSearch: the query is stored, the timer started
SearchInput(value) ==
    /\ view' = [view EXCEPT !.searchQuery = value, !.searchTimer = TRUE]
    /\ last' = [op |-> "searchInput", unapplied |-> TRUE]
    /\ UNCHANGED <<blob, medium, now, bookings, userLocation, api, auth, app>>

\* the timer of debouncedSearch fires: applyFilters, renderProviders
DebouncedSearch ==
    /\ view.searchTimer
    /\ view' = renderProviders(applyFilters([view EXCEPT !.searchTimer = FALSE]))
    /\ last' = [op |-> "debouncedSearch", unapplied |-> FALSE]
    /\ UNCHANGED <<blob, medium, now, bookings, userLocation, api, auth, app>>

\* the change event of a .filter-input: updateFilter
UpdateFilter(input) ==
    /\ view' = [view EXCEPT !.currentFilters = updateFilter(view.currentFilters, input)]
    /\ last' = [op |-> "updateFilter", unapplied |-> TRUE]
    /\ UNCHANGED <<blob, medium, now, bookings, userLocation, api, auth, app>>

\* the input event of a .price-range-input: updatePriceRange
UpdatePriceRange(priceMin, priceMax) ==
    /\ view' = [view EXCEPT !.currentFilters =
                   updatePriceRange(view.currentFilters, priceMin, priceMax)]
    /\ last' = [op |-> "updatePriceRange", unapplied |-> TRUE]
    /\ UNCHANGED <<blob, medium, now, bookings, userLocation, api, auth, app>>

\* the input event of #distanceRange: updateDistanceFilter
UpdateDistanceFilter(distance) ==
    /\ view' = [view EXCEPT !.currentFilters.distance = distance]
    /\ last' = [op |-> "updateDistanceFilter", unapplied |-> TRUE]
    /\ UNCHANGED <<blob, medium, now, bookings, userLocation, api, auth, app>>

\* the change event of #sortBy: the order is stored, sortProviders, renderProviders
SortByChange(sortBy) ==
    /\ view' = renderProviders(sortProviders([view EXCEPT !.currentFilters.sortBy = sortBy]))
    /\ last' = [op |-> "sortByChange", unapplied |-> last.unapplied]
    /\ UNCHANGED <<blob, medium, now, bookings, userLocation, api, auth, app>>

\* clearAllFilters: defaults, the sliders back to 0 and 5000, applyFilters,
\* renderProviders
ClearAllFilters ==
    /\ LET cleared == [view EXCEPT !.currentFilters =
                          updatePriceRange(defaultFilters, 0, 5000),
                                   !.searchQuery = <<>>]
       IN  view' = renderProviders(applyFilters(cleared))
    /\ last' = [op |-> "clearAllFilters", unapplied |-> FALSE]
    /\ UNCHANGED <<blob, medium, now, bookings, userLocation, api, auth, app>>

\* searchByService(service)
SearchByService(service) ==
    /\ view' = renderProviders(applyFilters([view EXCEPT !.currentFilters.service = service]))
    /\ last' = [op |-> "searchByService", unapplied |-> FALSE]
    /\ UNCHANGED <<blob, medium, now, bookings, userLocation, api, auth, app>>

\* the orders the #sortBy select is changed to here
ChosenSortOrders == {"relevance", "rating", "price_low"}

\* showProviders(providers) has run: the list is filtered, sorted and shown
InitProviders ==
    /\ now = 1
    /\ userLocation = <<>>
    /\ api = newApiService(TRUE, FALSE)
    /\ auth = newAuthenticationService
    /\ app = newQuickServeApp
    /\ medium = "ok"
    /\ blob = initializeStorage(Missing, medium, now)
    /\ bookings = <<>>
    /\ last = [op |-> "showProviders", unapplied |-> FALSE]
    /\ \E providers \in ProviderLists, perPage \in 1 .. MaxPageSize :
           /\ Len(providers) = MaxProviders
           /\ providers[1].id = "provider_A"
           /\ providers[2].id = "provider_B"
           /\ view = renderProviders(applyFilters(
                         [newProvidersView(perPage) EXCEPT !.providers = providers]))

NextProviders ==
    \/ \E value \in Queries : SearchInput(value)
    \/ DebouncedSearch
    \/ \E input \in FilterInputs : UpdateFilter(input)
    \/ UpdatePriceRange(400, 550)
    \/ UpdateDistanceFilter(5)
    \/ \E sortBy \in ChosenSortOrders : SortByChange(sortBy)
    \/ ApplyFilters
    \/ ClearAllFilters
    \/ SearchByService(<<"p", "l">>)
    \/ \E page \in view.container.pages : ChangePage(page)

SpecProviders == InitProviders /\ [][NextProviders]_vars

\* ------------------------------------------------ claims: filter and rank

\* text contains part, letter case ignored
containsIgnoringCase(text, part) ==
    \E i \in 0 .. Len(text) - Len(part) :
        \A k \in 1 .. Len(part) : toLowerCase(text)[i + k] = toLowerCase(part)[k]

\* the provider satisfies every active constraint of the filter set
Matches(provider, filters, searchQuery) ==
    /\ \/ searchQuery = <<>>
       \/ containsIgnoringCase(provider.name, searchQuery)
       \/ \E service \in provider.services : containsIgnoringCase(service, searchQuery)
       \/ /\ "specializations" \in DOMAIN provider
          /\ \E spec \in provider.specializations : containsIgnoringCase(spec, searchQuery)
    /\ filters.service = <<>> \/ filters.service \in provider.services
    /\ provider.rating >= filters.rating
    /\ filters.priceRange[1] <= provider.basePrice /\ provider.basePrice <= filters.priceRange[2]
    /\ "distance" \in DOMAIN provider => provider.distance <= filters.distance
    /\ filters.availability = "available" => provider.availability = "available"
    /\ filters.verification = "" \/ provider.verificationLevel = filters.verification
    /\ provider.experience >= filters.experience

elements(list) == {list[i] : i \in 1 .. Len(list)}

\* C14: applyFilters keeps exactly the providers that satisfy all active
\* constraints: none that matches is dropped, none that does not is kept.
C14_FilterIsExact ==
    [][ApplyFilters
          => /\ elements(view'.filteredProviders)
                    = {provider \in elements(view.providers) :
                          Matches(provider, view.currentFilters, view.searchQuery)}
             /\ Len(view'.filteredProviders) = Cardinality(elements(view'.filteredProviders))]_vars

\* C14's case: applyFilters ran with a query and several filters active, kept
\* some providers and dropped others
C14_Witness ==
    /\ last.op = "applyFilters"
    /\ view.searchQuery # <<>>
    /\ view.currentFilters.rating > 0
    /\ view.currentFilters.priceRange # defaultFilters.priceRange
    /\ view.currentFilters.experience > 0
    /\ Len(view.filteredProviders) > 0
    /\ Len(view.filteredProviders) < Len(view.providers)

RatingGrid == {0, 25, 45, 49, 50}
ReviewCountGrid == {0, 150, 200, 500}
ExperienceGrid == {0, 20, 40}
DistanceGrid == {1, 2, 60}
FullScore == 100 * 40

\* the provider with some of its fields replaced
With(provider, fields) == Merge(provider, fields)

\* the fields calculateRelevanceScore reads are the same in both providers
sameScoredFields(provider, other) ==
    /\ other.rating = provider.rating
    /\ other.availability = provider.availability
    /\ other.experience = provider.experience
    /\ other.reviewCount = provider.reviewCount
    /\ ("distance" \in DOMAIN other) = ("distance" \in DOMAIN provider)
    /\ "distance" \in DOMAIN other => other.distance = provider.distance

\* C15: wherever the relevance order was applied to every provider of the
\* list, the score depends on the scored fields only, does not decrease when
\* the rating or the review count rises or when busy becomes available, and
\* lies between 0 and 100 for a rating between 0 and 5.
C15_ScoreMonotonicAndBounded ==
    (/\ last.op = "applyFilters"
     /\ view.currentFilters.sortBy = "relevance"
     /\ Len(view.filteredProviders) = Len(view.providers))
        => /\ \A i \in 1 .. Len(view.providers) :
                  LET provider == view.providers[i]
                  IN  /\ \A j \in 1 .. Len(view.providers) :
                             sameScoredFields(provider, view.providers[j])
                                 => calculateRelevanceScore(view.providers[j])
                                        = calculateRelevanceScore(provider)
                      /\ \A low, high \in RatingGrid :
                             low <= high
                                 => calculateRelevanceScore(With(provider, [rating |-> low]))
                                        <= calculateRelevanceScore(With(provider, [rating |-> high]))
                      /\ \A low, high \in ReviewCountGrid :
                             low <= high
                                 => calculateRelevanceScore(With(provider, [reviewCount |-> low]))
                                        <= calculateRelevanceScore(With(provider, [reviewCount |-> high]))
                      /\ calculateRelevanceScore(With(provider, [availability |-> "busy"]))
                             <= calculateRelevanceScore(With(provider, [availability |-> "available"]))
                      /\ 0 <= calculateRelevanceScore(provider)
                      /\ calculateRelevanceScore(provider) <= FullScore
           /\ \A rating \in RatingGrid, reviewCount \in ReviewCountGrid,
                    experience \in ExperienceGrid, distance \in DistanceGrid,
                    availability \in {"available", "busy"} :
                  LET score == calculateRelevanceScore(
                                   [rating |-> rating, reviewCount |-> reviewCount,
                                    experience |-> experience, distance |-> distance,
                                    availability |-> availability])
                  IN  0 <= score /\ score <= FullScore

\* C15's case: the relevance order was applied to providers whose scores differ
\* and it moved them
C15_Witness ==
    /\ last.op = "applyFilters"
    /\ view.currentFilters.sortBy = "relevance"
    /\ Len(view.filteredProviders) = MaxProviders
    /\ view.filteredProviders # view.providers
    /\ \E i, j \in 1 .. Len(view.providers) :
           /\ view.providers[i].availability # view.providers[j].availability
           /\ view.providers[i].rating # view.providers[j].rating

\* the providers applyFilters keeps, in the order of this.providers
keptProviders ==
    LET keep(provider) == passesFilters(provider, view.currentFilters, view.searchQuery)
    IN  SelectSeq(view.providers, keep)

\* C16: after sorting by distance every provider that has a distance (0
\* included) precedes every provider that has none, and those that have one are
\* in non-decreasing order of distance.
C16_DistanceOrder ==
    [][(ApplyFilters /\ view.currentFilters.sortBy = "distance")
          => \A i, j \in 1 .. Len(view'.filteredProviders) :
                 i < j
                     => LET first == view'.filteredProviders[i]
                            second == view'.filteredProviders[j]
                        IN  /\ "distance" \in DOMAIN second => "distance" \in DOMAIN first
                            /\ ("distance" \in DOMAIN first /\ "distance" \in DOMAIN second)
                                   => first.distance <= second.distance]_vars

\* the position of a provider in a list
position(list, provider) == CHOOSE i \in 1 .. Len(list) : list[i] = provider

\* C17: under every sort order two providers that compare equal keep the
\* relative order they had before the sort, and applying the filters again
\* with nothing changed yields the same sequence.
C17_SortIsStable ==
    [][ApplyFilters
          => /\ \A i, j \in 1 .. Len(keptProviders) :
                    (i < j /\ compare(keptProviders[i], keptProviders[j],
                                      view.currentFilters.sortBy) = 0)
                        => position(view'.filteredProviders, keptProviders[i])
                               < position(view'.filteredProviders, keptProviders[j])
             /\ applyFilters(view') = view']_vars

\* C17's case: a sort moved providers while two that compare equal were there
C17_Witness ==
    /\ last.op = "applyFilters"
    /\ view.currentFilters.sortBy \in {"rating", "availability", "distance", "relevance"}
    /\ Len(view.filteredProviders) = MaxProviders
    /\ view.filteredProviders # view.providers
    /\ \E i, j \in 1 .. Len(view.filteredProviders) :
           i # j /\ compare(view.filteredProviders[i], view.filteredProviders[j],
                            view.currentFilters.sortBy) = 0

\* C18: after sorting by price_low the base prices do not decrease, after
\* price_high they do not increase, and the result holds the filtered providers
\* once each.
C18_PriceOrder ==
    [][(ApplyFilters /\ view.currentFilters.sortBy \in {"price_low", "price_high"})
          => /\ \A i, j \in 1 .. Len(view'.filteredProviders) :
                    i < j
                        => IF view.currentFilters.sortBy = "price_low"
                           THEN view'.filteredProviders[i].basePrice
                                    <= view'.filteredProviders[j].basePrice
                           ELSE view'.filteredProviders[i].basePrice
                                    >= view'.filteredProviders[j].basePrice
             /\ elements(view'.filteredProviders) = elements(keptProviders)
             /\ Len(view'.filteredProviders) = Len(keptProviders)]_vars

\* C18's case: a price order was applied and moved providers
C18_Witness ==
    /\ last.op = "applyFilters"
    /\ view.currentFilters.sortBy \in {"price_low", "price_high"}
    /\ Len(view.filteredProviders) = MaxProviders
    /\ view.filteredProviders # view.providers
    /\ \E i, j \in 1 .. Len(view.filteredProviders) :
           view.filteredProviders[i].basePrice # view.filteredProviders[j].basePrice

\* C19: the pages 1 .. totalPages, one after the other, are the filtered
\* sequence, and a rendered page shows its slice.
RECURSIVE pagesFrom(_, _, _, _)
pagesFrom(list, page, total, perPage) ==
    IF page > total THEN <<>>
    ELSE paginatedProviders(list, page, perPage) \o pagesFrom(list, page + 1, total, perPage)

C19_PagesCoverTheSequence ==
    /\ pagesFrom(view.filteredProviders, 1,
                 totalPages(Len(view.filteredProviders), view.providersPerPage),
                 view.providersPerPage) = view.filteredProviders
    /\ last.op \in {"renderProviders", "changePage"}
           => LET first == (view.currentPage - 1) * view.providersPerPage
              IN  \A k \in 1 .. Len(view.container.cards) :
                      view.container.cards[k] = view.filteredProviders[first + k]

\* C19's case: the last page, shorter than a full page, is shown
C19_Witness ==
    /\ last.op = "changePage"
    /\ view.currentPage > 1
    /\ view.currentPage = totalPages(Len(view.filteredProviders), view.providersPerPage)
    /\ Len(view.container.cards) < view.providersPerPage
    /\ Len(view.container.cards) > 0

\* ------------------------------------------------------ claims: paging

\* C20: a render that follows a change of the filters, the order or the query
\* shows page 1: the change of #sortBy renders page 1, and no page button is
\* followed while a change has not been applied; changePage sets currentPage
\* only and leaves filteredProviders, the filters and the query as they were.
C20_PageResetOnChange ==
    [][/\ (\E sortBy \in ChosenSortOrders :
               sortBy # view.currentFilters.sortBy /\ SortByChange(sortBy))
              => view'.currentPage = 1
       /\ (\E page \in view.container.pages : ChangePage(page))
              => /\ ~last.unapplied
                 /\ view'.filteredProviders = view.filteredProviders
                 /\ view'.currentFilters = view.currentFilters
                 /\ view'.searchQuery = view.searchQuery]_vars

\* ------------------------------------------ the providers view (location)

\* LocationService.calculateDistance(lat1, lng1, lat2, lng2): the distance in
\* km between two points, here points of a grid with 1 km between neighbours
calculateDistance(lat1, lng1, lat2, lng2) ==
    (IF lat1 > lat2 THEN lat1 - lat2 ELSE lat2 - lat1)
        + (IF lng1 > lng2 THEN lng1 - lng2 ELSE lng2 - lng1)

\* the mock providers of loadProviders, before their location is set
mockProviders ==
    <<[id |-> "provider_001", name |-> <<"R", "a">>,
       services |-> {<<"p", "l">>, <<"e", "l">>}, specializations |-> {<<"E", "m">>},
       rating |-> 49, reviewCount |-> 203, experience |-> 12, basePrice |-> 600,
       availability |-> "available", verificationLevel |-> "fully_verified"],
      [id |-> "provider_002", name |-> <<"P", "r">>,
       services |-> {<<"c", "l">>, <<"s", "a">>}, specializations |-> {<<"D", "e">>},
       rating |-> 48, reviewCount |-> 156, experience |-> 6, basePrice |-> 400,
       availability |-> "available", verificationLevel |-> "aadhaar_verified"],
      [id |-> "provider_003", name |-> <<"M", "o">>,
       services |-> {<<"c", "a">>, <<"p", "a">>}, specializations |-> {<<"C", "u">>},
       rating |-> 47, reviewCount |-> 178, experience |-> 10, basePrice |-> 550,
       availability |-> "busy", verificationLevel |-> "fully_verified"],
      [id |-> "provider_004", name |-> <<"A", "n">>,
       services |-> {<<"c", "l">>, <<"c", "o">>}, specializations |-> {<<"H", "o">>},
       rating |-> 46, reviewCount |-> 142, experience |-> 8, basePrice |-> 350,
       availability |-> "available", verificationLevel |-> "police_verified"]>>

\* loadProviders(): the mock providers placed around userLocation (offsets[k]
\* is the random offset of provider k; location <<>> stands for null), then
\* the distance of each from userLocation when its lat and lng are truthy
loadProviders(v, loc, offsets) ==
    LET located(k) ==
            IF loc # <<>>
            THEN Merge(mockProviders[k],
                       [location |-> <<[lat |-> loc[1].lat + offsets[k][1],
                                        lng |-> loc[1].lng + offsets[k][2]]>>])
            ELSE Merge(mockProviders[k], [location |-> <<>>])
        measured(provider) ==
            IF provider.location # <<>>
            THEN Merge(provider,
                       [distance |-> calculateDistance(loc[1].lat, loc[1].lng,
                                         provider.location[1].lat, provider.location[1].lng)])
            ELSE provider
    IN  [v EXCEPT !.providers =
            [k \in 1 .. Len(mockProviders) |->
                IF loc # <<>> /\ loc[1].lat # 0 /\ loc[1].lng # 0
                THEN measured(located(k)) ELSE located(k)]]

\* the location contexts LocationService reports
Locations == {[lat |-> 2, lng |-> 2], [lat |-> 5, lng |-> 2]}

\* the random offsets of a mock provider from the reference location
Offsets == {<<1, 0>>, <<0, 2>>}

\* the lists a caller hands to showProviders: what an earlier load produced
GivenLists ==
    {loadProviders(newProvidersView(providersPerPage), <<loc>>,
                   [k \in 1 .. Len(mockProviders) |-> <<1, 0>>]).providers :
         loc \in Locations}

\* the geolocation changes (or is lost: <<>>)
LocationChanges(loc) ==
    /\ userLocation' = loc
    /\ loc # userLocation
    /\ last' = [op |-> "locationChanges", unapplied |-> last.unapplied]
    /\ UNCHANGED <<blob, medium, now, bookings, view, api, auth, app>>

\* showProviders(providers, serviceType); given is <<>> for providers = null
\* and <<list>> for a list, serviceType <<>> for none
ShowProviders(given, serviceType, offsets) ==
    LET loaded == IF given # <<>> THEN [view EXCEPT !.providers = given[1]]
                  ELSE loadProviders(view, userLocation, offsets)
        preset == IF serviceType # <<>>
                  THEN [loaded EXCEPT !.currentFilters.service = serviceType]
                  ELSE loaded
    IN  /\ view' = renderProviders(applyFilters(preset))
        /\ last' = [op |-> "showProviders", unapplied |-> FALSE]
        /\ UNCHANGED <<blob, medium, now, bookings, userLocation, api, auth, app>>

\* refresh()
Refresh(offsets) ==
    /\ view' = renderProviders(applyFilters(loadProviders(view, userLocation, offsets)))
    /\ last' = [op |-> "refresh", unapplied |-> FALSE]
    /\ UNCHANGED <<blob, medium, now, bookings, userLocation, api, auth, app>>

InitLocation ==
    /\ now = 1
    /\ medium = "ok"
    /\ blob = initializeStorage(Missing, medium, now)
    /\ bookings = <<>>
    /\ last = [op |-> "constructor", unapplied |-> FALSE]
    /\ view = newProvidersView(providersPerPage)
    /\ userLocation \in {<<>>} \cup {<<loc>> : loc \in Locations}
    /\ api = newApiService(TRUE, FALSE)
    /\ auth = newAuthenticationService
    /\ app = newQuickServeApp

NextLocation ==
    \/ \E loc \in {<<>>} \cup {<<l>> : l \in Locations} : LocationChanges(loc)
    \/ \E list \in GivenLists, serviceType \in {<<>>, <<"c", "l">>} :
           ShowProviders(<<list>>, serviceType, [k \in 1 .. Len(mockProviders) |-> <<1, 0>>])
    \/ \E serviceType \in {<<>>, <<"c", "l">>},
          offsets \in [1 .. Len(mockProviders) -> Offsets] :
           ShowProviders(<<>>, serviceType, offsets)
    \/ \E offsets \in [1 .. Len(mockProviders) -> Offsets] : Refresh(offsets)
    \/ SearchByService(<<"p", "l">>)
    \/ \E value \in Queries : SearchInput(value)
    \/ DebouncedSearch

SpecLocation == InitLocation /\ [][NextLocation]_vars

\* ---------------------------------------------------- claims: location

\* the operations that run applyFilters
QueryCycles == {"showProviders", "refresh", "searchByService", "debouncedSearch"}

\* C21: in every run of applyFilters (showProviders with or without a list,
\* refresh, searchByService, the debounced search) while a reference location
\* is available, each located provider's distance is the distance from the
\* current reference location to the provider's location
C21_DistanceIsCurrent ==
    [][(last'.op \in QueryCycles /\ userLocation' # <<>>) =>
           \A i \in 1 .. Len(view'.providers) :
               LET provider == view'.providers[i]
               IN  ("location" \in DOMAIN provider /\ provider.location # <<>>) =>
                       /\ "distance" \in DOMAIN provider
                       /\ provider.distance =
                              calculateDistance(userLocation'[1].lat, userLocation'[1].lng,
                                  provider.location[1].lat, provider.location[1].lng)]_vars

\* ------------------------------------------------- the API service (pure)

\* the errors a request meets: an ApiError with its status, the TypeError of
\* a failed fetch or of the request interceptor, the SyntaxError of a body
\* that does not parse
ApiError(status) == [name |-> "ApiError", status |-> status]
TypeError == [name |-> "TypeError", status |-> 0]
SyntaxError == [name |-> "SyntaxError", status |-> 0]

\* what makeRequest returns: { data, status, headers }
response(status) == [name |-> "response", status |-> status]

\* shouldNotRetry with 400 itself left out of the client errors
shouldNotRetry_above400(error) ==
    /\ error.name = "ApiError"
    /\ error.status > 400 /\ error.status < 500 /\ error.status # 408 /\ error.status # 429

\* shouldNotRetry(error)
shouldNotRetry(error) ==
    /\ error.name = "ApiError"
    /\ error.status >= 400 /\ error.status < 500 /\ error.status # 408 /\ error.status # 429

\* getRetryDelay(attempt): Math.pow(2, attempt - 1) * 1000
getRetryDelay(attempt) == (2 ^ (attempt - 1)) * 1000

\* the request interceptor: with no authToken config.headers is not created,
\* and setting config.headers['X-Correlation-ID'] throws when the caller gave
\* no headers
interceptorThrows(service, config) == ~service.authToken /\ ~config.headers

\* the catch branch of request's loop for the error of attempt r.attempt: the
\* error interceptor reads error.response, which no error here has, and
\* rejects; then shouldNotRetry breaks, or the delay starts, or the loop ends
failed(r, error) ==
    LET caught == [r EXCEPT !.lastError = <<error>>, !.attempts = Append(@, error),
                            !.timer = FALSE, !.status = 0]
    IN  IF shouldNotRetry(error)
        THEN [caught EXCEPT !.phase = "thrown", !.result = <<error>>]
        ELSE IF r.attempt < retryAttempts
             THEN [caught EXCEPT !.phase = "waiting",
                                 !.delays = Append(@, getRetryDelay(r.attempt))]
             ELSE [caught EXCEPT !.phase = "thrown", !.result = <<error>>]

\* --------------------------------------------- the API service (operations)

Methods == {"GET", "POST", "PATCH"}

\* a config as get, post and patch build it: absolute says that url starts
\* with 'http', headers that the caller gave headers
Configs == [method : Methods, absolute : BOOLEAN, headers : BOOLEAN]

\* the statuses the server answers with
Statuses == {200, 401, 404, 429, 500}

\* request(config) up to the loop: the request interceptors
Request(config) ==
    /\ api.request.phase = "none"
    /\ api' = [api EXCEPT !.request =
                  IF interceptorThrows(api, config)
                  THEN [@ EXCEPT !.phase = "thrown", !.config = <<config>>,
                                 !.result = <<TypeError>>]
                  ELSE [@ EXCEPT !.phase = "attempt", !.config = <<config>>, !.attempt = 1]]
    /\ last' = [op |-> "request"]
    /\ UNCHANGED <<blob, medium, now, bookings, view, userLocation, auth, app>>

\* makeRequest(config) up to the call of fetch: the abort timer is set, and
\* the request is blocked when the url is relative and baseURL is null
MakeRequest ==
    /\ api.request.phase = "attempt"
    /\ api' = [api EXCEPT !.request =
                  IF ~api.request.config[1].absolute /\ ~api.baseURL
                  THEN failed(@, ApiError(400))
                  ELSE [@ EXCEPT !.phase = "fetching", !.fetches = @ + 1, !.timer = TRUE]]
    /\ last' = [op |-> "makeRequest"]
    /\ UNCHANGED <<blob, medium, now, bookings, view, userLocation, auth, app>>

\* fetch resolves with the response's status and headers: clearTimeout, then
\* the body is read
Response(status) ==
    /\ api.request.phase = "fetching"
    /\ api' = [api EXCEPT !.request =
                  [@ EXCEPT !.phase = IF status >= 200 /\ status < 300
                                      THEN "parsing" ELSE "parsingError",
                            !.status = status, !.timer = FALSE]]
    /\ last' = [op |-> "response"]
    /\ UNCHANGED <<blob, medium, now, bookings, view, userLocation, auth, app>>

\* fetch rejects: a network failure
NetworkFailure ==
    /\ api.request.phase = "fetching"
    /\ api' = [api EXCEPT !.request = failed(@, TypeError)]
    /\ last' = [op |-> "networkFailure"]
    /\ UNCHANGED <<blob, medium, now, bookings, view, userLocation, auth, app>>

\* the abort timer fires after timeoutDuration: fetch rejects with an
\* AbortError, which makeRequest reports as 408
Timeout ==
    /\ api.request.phase = "fetching"
    /\ api.request.timer
    /\ api' = [api EXCEPT !.request = failed(@, ApiError(408))]
    /\ last' = [op |-> "timeout"]
    /\ UNCHANGED <<blob, medium, now, bookings, view, userLocation, auth, app>>

\* parseResponse resolves: makeRequest returns, request returns the response
BodyParsed ==
    /\ api.request.phase = "parsing"
    /\ api' = [api EXCEPT !.request =
                  [@ EXCEPT !.phase = "returned",
                            !.result = <<response(api.request.status)>>,
                            !.attempts = Append(@, response(api.request.status))]]
    /\ last' = [op |-> "bodyParsed"]
    /\ UNCHANGED <<blob, medium, now, bookings, view, userLocation, auth, app>>

\* parseResponse rejects: the body is not what its content type says
BodyFails ==
    /\ api.request.phase = "parsing"
    /\ api' = [api EXCEPT !.request = failed(@, SyntaxError)]
    /\ last' = [op |-> "bodyFails"]
    /\ UNCHANGED <<blob, medium, now, bookings, view, userLocation, auth, app>>

\* parseErrorResponse resolves: makeRequest throws the ApiError of the status
ErrorBodyParsed ==
    /\ api.request.phase = "parsingError"
    /\ api' = [api EXCEPT !.request = failed(@, ApiError(api.request.status))]
    /\ last' = [op |-> "errorBodyParsed"]
    /\ UNCHANGED <<blob, medium, now, bookings, view, userLocation, auth, app>>

\* the delay before the next attempt is over
Delay ==
    /\ api.request.phase = "waiting"
    /\ api' = [api EXCEPT !.request = [@ EXCEPT !.phase = "attempt", !.attempt = @ + 1]]
    /\ last' = [op |-> "delay"]
    /\ UNCHANGED <<blob, medium, now, bookings, view, userLocation, auth, app>>

InitApi ==
    /\ now = 1
    /\ medium = "ok"
    /\ blob = initializeStorage(Missing, medium, now)
    /\ bookings = <<>>
    /\ last = [op |-> "constructor"]
    /\ view = newProvidersView(providersPerPage)
    /\ userLocation = <<>>
    /\ \E baseURL \in BOOLEAN, authToken \in BOOLEAN : api = newApiService(baseURL, authToken)
    /\ auth = newAuthenticationService
    /\ app = newQuickServeApp

NextApi ==
    \/ \E config \in Configs : Request(config)
    \/ MakeRequest
    \/ \E status \in Statuses : Response(status)
    \/ NetworkFailure
    \/ Timeout
    \/ BodyParsed
    \/ BodyFails
    \/ ErrorBodyParsed
    \/ Delay

SpecApi == InitApi /\ [][NextApi]_vars

\* ------------------------------------------------ claims: the API service

\* the failures the retry policy names as retryable: a timed-out attempt
\* (408), a network failure, a 429 and a 5xx
Retryable(error) ==
    \/ error.name = "TypeError"
    \/ error.name = "ApiError" /\ (error.status \in {408, 429} \/ error.status >= 500)

\* a client error: 4xx other than 408 and 429
ClientError(error) ==
    /\ error.name = "ApiError"
    /\ error.status \in 400 .. 499 \ {408, 429}

\* C22: one request makes at most 3 attempts; a timed-out attempt, a network
\* failure, a 429 and a 5xx are retried while attempts remain; the waits
\* between attempts are 1 s, 2 s, 4 s; every attempt under way has its 10 s
\* abort timer pending, so the request terminates; it ends returning the first
\* successful response or throwing the error of its last attempt
C22_BoundedRetryTerminates ==
    LET r == api.request
        n == Len(r.attempts)
    IN  /\ r.attempt <= 3 /\ n <= 3 /\ r.fetches <= 3
        /\ \A k \in 1 .. Len(r.delays) :
               r.delays[k] = (2 ^ (k - 1)) * 1000 /\ r.delays[k] \in {1000, 2000, 4000}
        /\ r.phase \in {"fetching", "parsing", "parsingError"} => r.timer
        /\ (r.phase = "thrown" /\ n \in 1 .. 2) => ~Retryable(r.attempts[n])
        /\ r.phase = "returned" =>
               /\ n >= 1 /\ r.result = <<r.attempts[n]>> /\ r.attempts[n].name = "response"
               /\ \A k \in 1 .. n - 1 : r.attempts[k].name # "response"
        /\ r.phase = "thrown" => n >= 1 /\ r.result = <<r.attempts[n]>>

\* C23: an attempt that fails with a client error (4xx other than 408 and
\* 429) is the request's last: request throws that error with no wait after
\* it, after exactly one attempt when it is the first; the 400 'API disabled'
\* error of an unset base URL is thrown after one attempt that sent nothing
C23_ClientErrorNotRetried ==
    LET r == api.request
        n == Len(r.attempts)
    IN  /\ \A k \in 1 .. n :
               ClientError(r.attempts[k]) =>
                   /\ k = n
                   /\ r.phase = "thrown"
                   /\ r.result = <<r.attempts[k]>>
                   /\ Len(r.delays) = n - 1
        /\ (n >= 1 /\ ClientError(r.attempts[1])) => n = 1 /\ r.delays = <<>>
        /\ (n >= 1 /\ ~api.baseURL /\ ~r.config[1].absolute) =>
               r.attempts = <<ApiError(400)>> /\ r.fetches = 0 /\ r.delays = <<>>

\* C23 happens: a request with the base URL unset has thrown 'API disabled'
C23_Witness ==
    /\ ~api.baseURL
    /\ api.request.phase = "thrown"
    /\ api.request.attempts = <<ApiError(400)>>
    /\ api.request.result = <<ApiError(400)>>

\* C24: a request issued through post or patch is sent to the server at most
\* once, whatever failure its attempt ends with
C24_NonIdempotentSentOnce ==
    (api.request.config # <<>> /\ api.request.config[1].method \in {"POST", "PATCH"})
        => api.request.fetches <= 1

\* --------------------------------------------------- claims: lost updates

\* the fields the view's operation op sets on a booking, and the stamp
\* updateInCollection adds
WrittenFields(op) ==
    IF op = "submitReview" THEN {"reviewed", "review", "updatedAt"}
    ELSE {"status", "cancelledAt", "updatedAt"}

\* C26: a submitReview or cancelBooking from the view changes, in the stored
\* booking, only the fields it sets: what another actor (the poll, the OTP
\* verification) stored since loadBookings is not overwritten by the view's
\* stale copy; in particular submitReview leaves the stored status alone
C26_NoLostUpdate ==
    [][last'.op \in {"submitReview", "cancelBooking"} =>
           LET before == findInCollection(blob, "ok", "bookings", last'.bookingId)
               after == findInCollection(blob', "ok", "bookings", last'.bookingId)
           IN  (before # <<>> /\ after # <<>>) =>
                   \A f \in (DOMAIN before[1]) \ WrittenFields(last'.op) :
                       f \in DOMAIN after[1] /\ after[1][f] = before[1][f]]_vars

\* ------------------------------------------------ claims: authentication

\* C25: isAuthenticated() returns true exactly when the session pointer names
\* a user of the users collection: false for a null pointer and false for an
\* id that matches no stored user
C25_AuthenticatedIffStoredUser ==
    [][(last'.op = "isAuthenticated" /\ last' # last) =>
           (last'.ret <=>
                /\ getCurrentUserId(blob, medium) # 0
                /\ findInCollection(blob, medium, "users",
                                    getCurrentUserId(blob, medium)) # <<>>)]_vars

\* C28: after a server login of user U (syncLocalUser, then setCurrentUser)
\* the users collection holds an entity with U's id and getCurrentUser()
\* returns it
C28_ServerLoginStoresUser ==
    [][(last'.op = "serverLoginPrompt" /\ medium' = medium /\ now' = now) =>
           \E user \in AuthUsers :
               /\ user.phone = last'.phoneNumber
               /\ findInCollection(blob', medium', "users", user.id) # <<>>
               /\ getCurrentUser(blob', medium') =
                      [kind |-> "user",
                       user |-> findInCollection(blob', medium', "users", user.id)[1]]]_vars

\* ----------------------------------------------------- the login OTP (pure)

\* generateOTP(phoneNumber), local/demo branch: otp is the random 6-digit code
generateOTP(a, t, otp) ==
    [a EXCEPT !.currentOTP = otp, !.otpExpiry = t + OtpWindow]

\* the result of verifyOTP(inputOTP), local/demo branch: the service
\* afterwards and the success it reports
verifyOTP(a, t, inputOTP) ==
    IF a.otpExpiry = 0 \/ t > a.otpExpiry
    THEN [auth |-> a, success |-> FALSE, message |-> "expired"]
    ELSE IF a.verificationAttempts >= MAX_ATTEMPTS
         THEN [auth |-> a, success |-> FALSE, message |-> "maximum attempts exceeded"]
         ELSE IF inputOTP = a.currentOTP
              THEN [auth |-> [a EXCEPT !.currentOTP = "null", !.otpExpiry = 0,
                                       !.verificationAttempts = 0],
                    success |-> TRUE, message |-> "verified"]
              ELSE [auth |-> [a EXCEPT !.verificationAttempts = @ + 1],
                    success |-> FALSE, message |-> "invalid"]

\* ----------------------------------------------- the login OTP (operations)

\* the codes Math.random draws and the user types
Codes == {"111111", "222222"}

GenerateOTP(otp) ==
    /\ auth' = generateOTP(auth, now, otp)
    /\ last' = [op |-> "generateOTP"]
    /\ UNCHANGED <<blob, medium, now, bookings, view, userLocation, api, app>>

VerifyOTP(inputOTP) ==
    /\ LET res == verifyOTP(auth, now, inputOTP)
       IN  /\ auth' = res.auth
           /\ last' = [op |-> "verifyOTP", inputOTP |-> inputOTP, success |-> res.success,
                       message |-> res.message]
    /\ UNCHANGED <<blob, medium, now, bookings, view, userLocation, api, app>>

InitOtp ==
    /\ now = 0
    /\ medium = "ok"
    /\ blob = initializeStorage(Missing, medium, now)
    /\ bookings = <<>>
    /\ last = [op |-> "constructor"]
    /\ view = newProvidersView(providersPerPage)
    /\ userLocation = <<>>
    /\ api = newApiService(TRUE, FALSE)
    /\ auth = newAuthenticationService
    /\ app = newQuickServeApp

NextOtp ==
    \/ \E otp \in Codes : GenerateOTP(otp)
    \/ \E inputOTP \in Codes : VerifyOTP(inputOTP)
    \/ Tick

SpecOtp == InitOtp /\ [][NextOtp]_vars

\* ------------------------------------------------- claims: the login OTP

\* C27: after any history of verifyOTP calls, a new OTP verified with its own
\* code before its expiry succeeds; and verifyOTP succeeds only for the
\* current code, not expired (a code that verified once is no longer current)
C27_FreshWindowPerOTP ==
    [][(last'.op = "verifyOTP" /\ now' = now) =>
           /\ (last.op = "generateOTP" /\ last'.inputOTP = auth.currentOTP
                   /\ now <= auth.otpExpiry) => last'.success
           /\ last'.success =>
                  /\ last'.inputOTP = auth.currentOTP
                  /\ auth.otpExpiry # 0 /\ now <= auth.otpExpiry
                  /\ auth'.currentOTP # last'.inputOTP]_vars

\* ------------------------------------------------- the role upgrade (pure)

Digits == {"0", "1", "2", "3", "4", "5", "6", "7", "8", "9"}

\* /^\d{12}$/.test(aadhaarNumber)
validAadhaarFormat(aadhaarNumber) ==
    Len(aadhaarNumber) = 12 /\ \A i \in 1 .. 12 : aadhaarNumber[i] \in Digits

\* the result of verifyAadhaar(aadhaarNumber, consent): the blob afterwards
\* and the success it reports
verifyAadhaar(b, m, t, aadhaarNumber, consent) ==
    IF ~consent \/ ~validAadhaarFormat(aadhaarNumber)
    THEN [blob |-> b, success |-> FALSE]
    ELSE LET currentUser == getCurrentUser(b, m)
         IN  IF currentUser.kind = "user"
             THEN LET updated == updateInCollection(b, m, t, "users", currentUser.user.id,
                                     [verificationStatus |-> "aadhaar_verified",
                                      aadhaarVerified |-> TRUE,
                                      aadhaarLast4 |-> SubSeq(aadhaarNumber, 9, 12),
                                      aadhaarVerifiedAt |-> t]).blob
                  IN  [blob |-> IF Field(currentUser.user, "role") = "provider"
                                THEN updateInCollection(updated, m, t, "providers",
                                         currentUser.user.id,
                                         [verificationStatus |-> "aadhaar_verified",
                                          aadhaarVerified |-> TRUE]).blob
                                ELSE updated,
                       success |-> TRUE]
             ELSE [blob |-> b, success |-> FALSE]

\* the result of upgradeToProvider(userId, aadhaarNumber): the blob
\* afterwards and the success it reports
upgradeToProvider(b, m, t, r1, r2, userId, aadhaarNumber) ==
    LET user == findInCollection(b, m, "users", userId)
    IN  IF user = <<>> \/ Field(user[1], "role") # "other"
        THEN [blob |-> b, success |-> FALSE]
        ELSE LET aadhaarVerification == verifyAadhaar(b, m, t, aadhaarNumber, TRUE)
             IN  IF ~aadhaarVerification.success
                 THEN [blob |-> aadhaarVerification.blob, success |-> FALSE]
                 ELSE LET updatedUser == updateInCollection(aadhaarVerification.blob, m, t,
                                             "users", userId,
                                             [role |-> "provider",
                                              verificationStatus |-> "aadhaar_verified",
                                              upgradedAt |-> t])
                          removed == removeFromCollection(updatedUser.blob, m, t,
                                         "otherWorkers", userId)
                          added == addToCollection(removed.blob, m, t, r1, "providers",
                                       Merge([userId |-> updatedUser.ret.id], updatedUser.ret))
                          notified == addNotification(added.blob, m, t, r2,
                                          [type |-> "upgrade", title |-> "Upgrade Successful",
                                           userId |-> userId])
                      IN  [blob |-> notified.blob, success |-> TRUE]

\* ------------------------------------------- the role upgrade (operations)

\* the people who register as quick gig workers, and one customer
WorkerData ==
    {[phoneNumber |-> "+911", fullName |-> "Asha", role |-> "other"],
     [phoneNumber |-> "+912", fullName |-> "Ravi", role |-> "other"],
     [phoneNumber |-> "+912", fullName |-> "Ravi", role |-> "customer"]}

\* the Aadhaar numbers typed: one well formed, one too short
AadhaarNumbers ==
    {<<"1", "2", "3", "4", "1", "2", "3", "4", "1", "2", "3", "4">>, <<"1", "2">>}

UpgradeToProvider(userId, aadhaarNumber, r1, r2) ==
    /\ NotificationsFit
    /\ LET res == upgradeToProvider(blob, medium, now, r1, r2, userId, aadhaarNumber)
       IN  /\ blob' = res.blob
           /\ last' = [op |-> "upgradeToProvider", userId |-> userId,
                       success |-> res.success]
    /\ UNCHANGED <<medium, now, bookings, view, userLocation, api, auth, app>>

InitRoles ==
    /\ now = 1
    /\ medium = "ok"
    /\ blob = initializeStorage(Missing, medium, now)
    /\ bookings = <<>>
    /\ last = [op |-> "constructor", unreadable |-> TRUE, writable |-> TRUE]
    /\ view = newProvidersView(providersPerPage)
    /\ userLocation = <<>>
    /\ api = newApiService(TRUE, FALSE)
    /\ auth = newAuthenticationService
    /\ app = newQuickServeApp

NextRoles ==
    \/ \E userData \in WorkerData, r1, r2 \in Rand : RegisterUser(userData, r1, r2)
    \/ \E userId \in idsOf(getCollection(blob, "ok", "users")) : SetCurrentUser(userId)
    \/ \E userId \in idsOf(getCollection(blob, "ok", "users")),
          aadhaarNumber \in AadhaarNumbers, r1, r2 \in Rand :
           UpgradeToProvider(userId, aadhaarNumber, r1, r2)
    \/ Tick

SpecRoles == InitRoles /\ [][NextRoles]_vars

\* --------------------------------------------------- claims: role upgrade

\* the entries of a role collection that belong to user userId
EntriesOf(b, name, userId) ==
    {i \in 1 .. Len(getCollection(b, "ok", name)) :
         Field(getCollection(b, "ok", name)[i], "userId") = userId}

\* C29: after upgradeToProvider(userId) returns success, otherWorkers holds no
\* entry of that user and providers holds exactly one
C29_UpgradeMovesTheUser ==
    [][(last'.op = "upgradeToProvider" /\ last'.success /\ now' = now) =>
           /\ EntriesOf(blob', "otherWorkers", last'.userId) = {}
           /\ Cardinality(EntriesOf(blob', "providers", last'.userId)) = 1]_vars

\* --------------------------------------------- the real-time services (pure)

\* initializeWebSocket(): a new WebSocket, connecting, becomes this.socket
initializeWebSocket(a) == [a EXCEPT !.sockets = Append(@, "connecting")]

\* the close event of socket i: its onclose handler starts the 5 s timer
onclose(a, i) ==
    [a EXCEPT !.sockets[i] = "closed", !.reconnects = @ + 1]

\* destroy(): clearInterval for every interval id in realTimeServices, and
\* this.socket.close(), which starts the closing handshake of a socket that
\* is connecting or open
destroy(a) ==
    LET n == Len(a.sockets)
    IN  [a EXCEPT !.realTimeServices = {},
                  !.sockets = IF n > 0 /\ a.sockets[n] \in {"connecting", "open"}
                              THEN [a.sockets EXCEPT ![n] = "closing"]
                              ELSE a.sockets,
                  !.destroyed = TRUE]

\* --------------------------------------- the real-time services (operations)

\* startRealTimeServices(): the two polling intervals and the WebSocket
StartRealTimeServices ==
    /\ ~app.destroyed
    /\ app.realTimeServices = {}
    /\ app.sockets = <<>>
    /\ app' = initializeWebSocket(
                  [app EXCEPT !.realTimeServices = {"providerUpdates", "bookingUpdates"}])
    /\ last' = [op |-> "startRealTimeServices"]
    /\ UNCHANGED <<blob, medium, now, bookings, view, userLocation, api, auth>>

\* the connection of socket i is established: onopen
SocketOpens(i) ==
    /\ app.sockets[i] = "connecting"
    /\ app' = [app EXCEPT !.sockets[i] = "open"]
    /\ last' = [op |-> "onopen"]
    /\ UNCHANGED <<blob, medium, now, bookings, view, userLocation, api, auth>>

\* socket i is closed, by the server, by a failed connection or at the end of
\* the handshake close() started: onclose
SocketCloses(i) ==
    /\ app.sockets[i] # "closed"
    /\ app' = onclose(app, i)
    /\ last' = [op |-> "onclose"]
    /\ UNCHANGED <<blob, medium, now, bookings, view, userLocation, api, auth>>

\* a 5 s timer of onclose fires: initializeWebSocket()
Reconnect ==
    /\ app.reconnects > 0
    /\ Len(app.sockets) < MaxSockets
    /\ app' = initializeWebSocket([app EXCEPT !.reconnects = @ - 1])
    /\ last' = [op |-> "initializeWebSocket"]
    /\ UNCHANGED <<blob, medium, now, bookings, view, userLocation, api, auth>>

\* the 30 s interval fires: checkProviderUpdates, which draws no change here
ProviderInterval ==
    /\ "providerUpdates" \in app.realTimeServices
    /\ last' = [op |-> "checkProviderUpdates"]
    /\ UNCHANGED <<blob, medium, now, bookings, view, userLocation, api, auth, app>>

\* the 20 s interval fires: checkBookingUpdates
BookingInterval(choice) ==
    /\ "bookingUpdates" \in app.realTimeServices
    /\ CheckBookingUpdates(choice)

\* QuickServeApp.destroy()
Destroy ==
    /\ app' = destroy(app)
    /\ last' = [op |-> "destroy"]
    /\ UNCHANGED <<blob, medium, now, bookings, view, userLocation, api, auth>>

InitApp ==
    /\ now = 1
    /\ medium = "ok"
    /\ \E withEndOTP \in BOOLEAN :
           blob = initializeStorage(bookingsDocument(withEndOTP), medium, now)
    /\ bookings = <<>>
    /\ last = [op |-> "constructor"]
    /\ view = newProvidersView(providersPerPage)
    /\ userLocation = <<>>
    /\ api = newApiService(TRUE, FALSE)
    /\ auth = newAuthenticationService
    /\ app = newQuickServeApp

NextApp ==
    \/ StartRealTimeServices
    \/ \E i \in 1 .. Len(app.sockets) : SocketOpens(i)
    \/ \E i \in 1 .. Len(app.sockets) : SocketCloses(i)
    \/ Reconnect
    \/ ProviderInterval
    \/ \E choice \in [BookingIds -> PollChoices] : BookingInterval(choice)
    \/ Destroy

SpecApp == InitApp /\ [][NextApp]_vars

\* ------------------------------------------- claims: real-time services

\* C30: after destroy() the application opens no further WebSocket (the
\* close it starts leads to no initializeWebSocket), and the polling
\* intervals no longer fire
C30_NothingRunsAfterDestroy ==
    [][app.destroyed =>
           /\ Len(app'.sockets) = Len(app.sockets)
           /\ last'.op \notin {"checkProviderUpdates", "checkBookingUpdates"}]_vars

====
